---- MODULE Spec2Model ----
(***************************************************************************)
(* Reconciliation handlers of terraform-provider-tencentcloud: the Create, *)
(* Read, Update and Delete handlers of five resources (cfs snapshot,       *)
(* mariadb security groups, VPN gateway, EIP, tsf application config) and  *)
(* the Read handlers of two data sources, run by the configuration engine  *)
(* against one remote object of the vendor.                                *)
(*                                                                         *)
(* A handler is a sequence of vendor calls.  The position of the running   *)
(* handler is pc (the call site it is about to execute, "idle" between     *)
(* handlers); one step of a handler action executes that call with one of  *)
(* the outcomes the vendor can produce and runs the handler's code up to   *)
(* the next call site or to its return.                                    *)
(***************************************************************************)
EXTENDS Integers, Sequences, FiniteSets, TLC

\* Iterations a retry loop of readRetryTimeout / writeRetryTimeout gets
\* before resource.Retry gives up with its timeout error.
MaxAttempts == 2

\* Attribute changes the engine asks for over the life of the instance, in
\* one Update or spread over several.
MaxChanged == 2

-----------------------------------------------------------------------------
(* Strings that take part in identifier composition are sequences of       *)
(* characters; Chars spells the attribute values that are joined.          *)

FILED_SP == "#"

Chars(v) ==
    CASE v = ""      -> << >>
      [] v = "ins"   -> <<"i">>
      [] v = "sg"    -> <<"s">>
      [] v = "sg#x"  -> <<"s", "#", "x">>
      [] v = "maria" -> <<"m">>
      [] OTHER       -> <<v>>

StrOf(cs) ==
    IF \E v \in {"", "ins", "sg", "sg#x", "maria"} : Chars(v) = cs
    THEN CHOOSE v \in {"", "ins", "sg", "sg#x", "maria"} : Chars(v) = cs
    ELSE "?"

\* strings.Split(s, sep): the pieces of s between occurrences of sep
Split(s, sep) ==
    LET at == {k \in 1..Len(s) : s[k] = sep}
        \* the position of the j-th separator, 0 and Len(s) + 1 at the ends
        cut(j) == IF j = 0 THEN 0
                  ELSE IF j > Cardinality(at) THEN Len(s) + 1
                  ELSE CHOOSE k \in at : Cardinality({m \in at : m <= k}) = j
    IN  [j \in 1..(Cardinality(at) + 1) |-> SubSeq(s, cut(j - 1) + 1, cut(j) - 1)]

EmptyId == << >>

\* the identifier the vendor assigns to a created object
VendorId == <<"r">>

-----------------------------------------------------------------------------
(* Schemas *)

RTypes == {"cfs", "mariadb", "vpn", "eip", "tsf"}
DTypes == {"svc_tpl", "dbbrain"}

CfsSchema == {"file_system_id", "snapshot_name", "tags"}

MariadbSchema == {"instance_id", "security_group_id", "product"}

VpnSchema ==
    {"name", "vpc_id", "bandwidth", "public_ip_address", "type", "state",
     "prepaid_renew_flag", "prepaid_period", "charge_type", "cdc_id",
     "max_connection", "expired_time", "is_address_blocked",
     "new_purchase_plan", "restrict_state", "zone", "tags", "create_time"}

EipSchema ==
    {"name", "type", "anycast_zone", "applicable_for_clb",
     "internet_service_provider", "internet_charge_type",
     "internet_max_bandwidth_out", "tags", "bandwidth_package_id",
     "public_ip", "status"}

TsfSchema ==
    {"config_name", "config_version", "config_value", "application_id",
     "config_version_desc", "config_type", "encode_with_base64",
     "program_id_list"}

SvcTplSchema == {"name", "id", "template_list", "result_output_file"}

DbbrainSchema ==
    {"sec_audit_group_id", "product", "async_request_ids", "list",
     "result_output_file"}

Schema(t) ==
    CASE t = "cfs"     -> CfsSchema
      [] t = "mariadb" -> MariadbSchema
      [] t = "vpn"     -> VpnSchema
      [] t = "eip"     -> EipSchema
      [] t = "tsf"     -> TsfSchema
      [] t = "svc_tpl" -> SvcTplSchema
      [] t = "dbbrain" -> DbbrainSchema

VPN_CHARGE_TYPE_PREPAID == "PREPAID"
VPN_CHARGE_TYPE_POSTPAID_BY_HOUR == "POSTPAID_BY_HOUR"
VPN_PERIOD_PREPAID_RENEW_FLAG_AUTO_NOTIFY == "NOTIFY_AND_AUTO_RENEW"
VPN_STATE_AVAILABLE == "AVAILABLE"
GATE_WAY_TYPE_CCN == "CCN"
EIP_TYPE_EIP == "EIP"
EIP_STATUS_CREATING == "CREATING"

\* every attribute unset
Blank(t) == [a \in Schema(t) |-> ""]

\* s overridden by the pairs of m
Over(s, m) == [a \in DOMAIN s |-> IF a \in DOMAIN m THEN m[a] ELSE s[a]]

(* The configurations the engine hands to Create: the schema's Required    *)
(* attributes set, its Defaults applied, the Optional ones set or not.     *)
Configs(t) ==
    CASE t = "cfs" ->
           { Over(Blank(t), [file_system_id |-> "fs", snapshot_name |-> n, tags |-> g])
               : n \in {"", "n1"}, g \in {"", "t1"} }
      [] t = "mariadb" ->
           { Over(Blank(t), [instance_id |-> "ins", security_group_id |-> s, product |-> "maria"])
               : s \in {"sg", "sg#x"} }
      [] t = "vpn" ->
           \* every charge type and tag choice for IPSEC gateways, the plain
           \* one for gateways of type CCN and of no stated type
           { x \in { Over(Blank(t), [name |-> "n1", zone |-> "z", bandwidth |-> "5",
                                     prepaid_period |-> "1",
                                     prepaid_renew_flag |-> VPN_PERIOD_PREPAID_RENEW_FLAG_AUTO_NOTIFY,
                                     charge_type |-> c, type |-> ty, vpc_id |-> v, tags |-> g])
                       : c \in {VPN_CHARGE_TYPE_POSTPAID_BY_HOUR, VPN_CHARGE_TYPE_PREPAID},
                         ty \in {"", "IPSEC", "CCN"}, v \in {"", "vpc"}, g \in {"", "t1"} }
               : \/ x.type = "IPSEC"
                 \/ x.charge_type = VPN_CHARGE_TYPE_POSTPAID_BY_HOUR /\ x.tags = "" }
      [] t = "eip" ->
           { Over(Blank(t), [type |-> EIP_TYPE_EIP, name |-> n, tags |-> g,
                             internet_max_bandwidth_out |-> "5"])
               : n \in {"", "n1"}, g \in {"", "t1"} }
      [] t = "tsf" ->
           { Over(Blank(t), [config_name |-> "n1", config_version |-> "1.0",
                             config_value |-> "v", application_id |-> "app",
                             encode_with_base64 |-> e])
               : e \in {"", "true"} }
      [] t = "svc_tpl" -> { Over(Blank(t), [name |-> n]) : n \in {"", "n1"} }
      [] t = "dbbrain" -> { Over(Blank(t), [sec_audit_group_id |-> "sag", product |-> "mysql"]) }

-----------------------------------------------------------------------------
(* State *)

VARIABLES
    rtype,      \* the resource or data source type this instance belongs to
    config,     \* the desired configuration the engine holds for the instance
    id,         \* d.Id(): the local identifier, EmptyId when not tracked
    attrs,      \* the local attribute values (d.Get)
    old,        \* the attribute values before the running Update (d.GetChange)
    input,      \* the new values the running (or last) Update was given
    changed,    \* attribute changes the Updates have asked for, so far
    remote,     \* the vendor's object: lifecycle status, fields, neighbours
    op,         \* the handler that is running or ran last
    gone,       \* the remote object was absent when that handler was called
    pc,         \* the call site the running handler is at, "idle" between handlers
    attempts,   \* iterations the current retry loop has used
    calls,      \* the call sites the running (or last) handler went through, in
                \* order (the iterations of one retry loop count once)
    last,       \* the latest vendor call: its site and what it answered
    result,     \* what the last handler returned
    populated,  \* the attributes the last Read wrote with d.Set
    partial,    \* d.Partial mode and the keys given to d.SetPartial
    made,       \* the remote objects the running (or last) handler's create
                \* calls have made at the vendor
    mon         \* observer of the sequence Create, Read, Update(no change), Read

vars == << rtype, config, id, attrs, old, input, changed, remote, op, gone,
           pc, attempts, calls, last, result, populated, partial, made, mon >>

\* the part of the state a handler's code reads and writes
S == [id |-> id, attrs |-> attrs, old |-> old, remote |-> remote, pc |-> pc,
      attempts |-> attempts, result |-> result, populated |-> populated,
      partial |-> partial]

NoResult == [status |-> "none", err |-> "", at |-> ""]
NoPartial == [on |-> FALSE, keys |-> {}]
NoMon == [k |-> 0, attrs |-> << >>, remote |-> << >>]
NoInput == [a \in {} |-> ""]
NoCall == [site |-> "", kind |-> "", x |-> "", ccn |-> FALSE]

AbsentRemote(t, peers) == [st |-> "absent", attrs |-> Blank(t), peers |-> peers]

\* d.GetOk(a): the value is set and not the zero value
GetOk(s, a) == s.attrs[a] # ""

\* d.HasChange(a)
HasChange(s, a) == s.old[a] # s.attrs[a]

\* helper.GetTags(d, "tags") has at least one tag
HasTags(s) == s.attrs["tags"] # ""

Exists(r) == r.st # "absent"

-----------------------------------------------------------------------------
(* The vendor.  A call returns ok, or an error of one of the kinds the     *)
(* handlers tell apart: "transient" (rate limit, network: what retryError  *)
(* classifies retryable), "fatal" (any other error), "notfound" (the       *)
(* gateway named in the request does not exist: VPCNotFound), "busy"       *)
(* (DesOperation.MutexTaskRunning), "internal" (InternalError).            *)

Out(k) == [kind |-> k, x |-> "", ccn |-> FALSE]
OutX(k, x) == [kind |-> k, x |-> x, ccn |-> FALSE]

\* a call that reads
DescribeOutcomes == {Out("ok"), Out("transient"), Out("fatal")}

\* a call that creates
CreateOutcomes == {Out("ok"), Out("transient"), Out("fatal")}

\* a create call the vendor carried out whose answer did not arrive: the
\* caller sees a network error, which is a transient one
LostAnswer == OutX("transient", "lost")

\* the create calls whose object gets its identifier from the vendor
CreateSites ==
    {"CreateCfsSnapshot", "CreateConfig", "AllocateAddresses", "CreateVpnGateway"}

\* the objects made so far once the call at site has answered o: a create
\* call that was carried out makes a new object each time, whether its
\* answer arrived or not; AssociateSecurityGroups names its object in the
\* request, and repeating it makes the same association
MadeNext(site, o, m) ==
    IF site \in CreateSites
    THEN IF \/ o = LostAnswer
            \/ o.kind = "ok" /\ o.x \notin {"nil", "empty", "false"}
         THEN m + 1 ELSE m
    ELSE IF site = "AssociateSecurityGroups" /\ o.kind = "ok" THEN 1
    ELSE m

\* a call that changes or deletes the object named in the request
MutateOutcomes(r) == {Out("ok"), Out("transient"), Out("fatal")}

\* DescribeVpnGateways by id: for a gateway that is gone the vendor answers
\* with an empty set or with the error code VPCNotFound, the two answers
\* Delete's wait provides for
DescribeVpnGatewaysOutcomes(r) ==
    DescribeOutcomes \cup (IF Exists(r) THEN {} ELSE {Out("notfound")})

\* the status the vendor reports for the object
StateName(t, st) ==
    CASE t = "vpn" /\ st = "creating"  -> "PENDING"
      [] t = "vpn" /\ st = "available" -> VPN_STATE_AVAILABLE
      [] t = "vpn" /\ st = "deleting"  -> "DELETING"
      [] t = "eip" /\ st = "creating"  -> EIP_STATUS_CREATING
      [] t = "eip" /\ st = "available" -> "UNBIND"
      [] t = "eip" /\ st = "deleting"  -> "OFFLINING"
      [] OTHER -> st

\* the fields a request carries: an unset attribute leaves its field nil
Fields(req) == [a \in {b \in DOMAIN req : req[b] # ""} |-> req[a]]

\* the object a create call leaves behind: the request's fields, the
\* fields the vendor computes, and the asynchronous lifecycle where the
\* object has one
VendorCreate(t, r, req) ==
    [r EXCEPT
       !.st = IF t \in {"cfs", "vpn", "eip"} THEN "creating" ELSE "available",
       !.attrs =
          CASE t = "vpn" ->
                 Over(Over(Blank(t), [public_ip_address |-> "ip", create_time |-> "ct",
                                      expired_time |-> "exp", is_address_blocked |-> "false",
                                      restrict_state |-> "NORMAL",
                                      type |-> "IPSEC"]),
                      Fields(req))
            [] t = "eip" ->
                 Over(Over(Blank(t), [public_ip |-> "ip", name |-> "dflt",
                                      internet_charge_type |-> "TRAFFIC"]),
                      Fields(req))
            [] OTHER -> Over(Blank(t), req)]

\* a modify call: the fields the request carries replace the object's
VendorModify(r, req) ==
    IF Exists(r) THEN [r EXCEPT !.attrs = Over(@, req)] ELSE r

\* a delete call: asynchronous where the object has a lifecycle
VendorDelete(t, r) ==
    IF ~Exists(r) THEN r
    ELSE [r EXCEPT !.st = IF t \in {"cfs", "vpn", "eip"} THEN "deleting" ELSE "absent",
                   !.attrs = IF t \in {"cfs", "vpn", "eip"} THEN @ ELSE Blank(t)]

-----------------------------------------------------------------------------
(* resource.Retry and the error classification *)

\* retryError(err, extra...): "retryable" for a transient error and for an
\* error whose code is in extra, "nonretryable" otherwise
retryError(kind, extra) ==
    IF kind = "transient" \/ kind \in extra THEN "retryable" ELSE "nonretryable"

readRetryBudget == MaxAttempts
writeRetryBudget == MaxAttempts
doubleReadRetryBudget == 2 * MaxAttempts

\* return err (or nil when err = "") from the handler
Return(s, err) ==
    [s EXCEPT !.pc = "returned", !.attempts = 0,
              !.result = [status |-> IF err = "" THEN "ok" ELSE "error",
                          err |-> err, at |-> IF err = "" THEN "" ELSE s.pc]]

\* go on to call site next
Goto(s, next) == [s EXCEPT !.pc = next, !.attempts = 0]

\* resource.Retry gave the loop `budget` iterations
TimedOut(n, budget) == n >= budget

\* one iteration of resource.Retry(timeout, f) ended with class: nil leaves
\* the loop with succ, a non-retryable error returns it, a retryable error
\* repeats f until the timeout
Retry(s, class, err, budget, succ) ==
    CASE class = "nil"          -> succ
      [] class = "nonretryable" -> Return(s, err)
      [] class = "retryable"    ->
            IF TimedOut(s.attempts + 1, budget)
            THEN Return(s, "timeout")
            ELSE [s EXCEPT !.attempts = @ + 1]

\* the common loop body: `if e != nil { return retryError(e, extra) }; return nil`
RetryCall(s, o, extra, budget, succ) ==
    Retry(s, IF o.kind = "ok" THEN "nil" ELSE retryError(o.kind, extra),
          o.kind, budget, succ)

-----------------------------------------------------------------------------
(* tencentcloud_cfs_snapshot *)

\* d.Set(a, v) for the attributes in as that the response carries (a field
\* the vendor leaves out, a nil pointer, is the empty value of the model)
SetFrom(s, as) ==
    LET obs == s.remote.attrs
        got == {a \in as : obs[a] # ""}
    IN  [s EXCEPT !.attrs = Over(@, [a \in got |-> obs[a]]),
                  !.populated = @ \cup got]

\* d.Set(a, v) unconditionally
SetAll(s, as, obs) ==
    [s EXCEPT !.attrs = Over(@, [a \in as |-> obs[a]]),
              !.populated = @ \cup as]

resourceTencentCloudCfsSnapshotReadBegin(s) ==
    Goto([s EXCEPT !.populated = {}], "read:DescribeCfsSnapshotById")

resourceTencentCloudCfsSnapshotReadStep(s, o) ==
    CASE s.pc = "read:DescribeCfsSnapshotById" ->
           IF o.kind # "ok" THEN Return(s, o.kind)
           ELSE IF ~Exists(s.remote) THEN Return([s EXCEPT !.id = EmptyId], "")
           ELSE Goto(SetFrom(s, {"file_system_id", "snapshot_name"}),
                     "read:DescribeResourceTags")
      [] s.pc = "read:DescribeResourceTags" ->
           IF o.kind # "ok" THEN Return(s, o.kind)
           ELSE Return(SetAll(s, {"tags"}, s.remote.attrs), "")

\* a fault: the identifier is not recorded when the create call answers
CfsSnapshotCreatedNoSetId(s) ==
    [s EXCEPT !.remote = VendorCreate("cfs", @,
                             [a \in {"file_system_id", "snapshot_name"} |-> s.attrs[a]])]

\* CreateCfsSnapshot answered: snapshotId = *response.Response.SnapshotId,
\* d.SetId(snapshotId)
CfsSnapshotCreated(s) ==
    [s EXCEPT !.remote = VendorCreate("cfs", @,
                             [a \in {"file_system_id", "snapshot_name"} |-> s.attrs[a]]),
              !.id = VendorId]

resourceTencentCloudCfsSnapshotCreateBegin(s) ==
    Goto(s, "CreateCfsSnapshot")

resourceTencentCloudCfsSnapshotCreateStep(s, o) ==
    CASE s.pc = "CreateCfsSnapshot" ->
           RetryCall(s, o, {}, writeRetryBudget,
               Goto(CfsSnapshotCreated(s), "poll:DescribeCfsSnapshotById"))
      [] s.pc = "poll:DescribeCfsSnapshotById" ->
           \* conf.WaitForState(): an error of the refresh ends the wait,
           \* any state but the target keeps it waiting until the timeout
           IF o.kind # "ok" THEN Return(s, o.kind)
           ELSE Retry(s, IF s.remote.st = "available" THEN "nil" ELSE "retryable",
                      "", doubleReadRetryBudget,
                      IF HasTags(s) THEN Goto(s, "ModifyTags")
                      ELSE resourceTencentCloudCfsSnapshotReadBegin(s))
      [] s.pc = "ModifyTags" ->
           IF o.kind # "ok" THEN Return(s, o.kind)
           ELSE resourceTencentCloudCfsSnapshotReadBegin(
                    [s EXCEPT !.remote = VendorModify(@, [tags |-> s.attrs["tags"]])])
      [] OTHER -> resourceTencentCloudCfsSnapshotReadStep(s, o)

resourceTencentCloudCfsSnapshotUpdateBegin(s) ==
    IF HasChange(s, "snapshot_name") THEN Goto(s, "UpdateCfsSnapshotAttribute")
    ELSE IF HasChange(s, "tags") THEN Goto(s, "ModifyTags")
    ELSE resourceTencentCloudCfsSnapshotReadBegin(s)

resourceTencentCloudCfsSnapshotUpdateStep(s, o) ==
    CASE s.pc = "UpdateCfsSnapshotAttribute" ->
           RetryCall(s, o, {}, writeRetryBudget,
               LET n == [s EXCEPT !.remote = VendorModify(@,
                            Fields([snapshot_name |-> s.attrs["snapshot_name"]]))]
               IN  IF HasChange(s, "tags") THEN Goto(n, "ModifyTags")
                   ELSE resourceTencentCloudCfsSnapshotReadBegin(n))
      [] s.pc = "ModifyTags" ->
           IF o.kind # "ok" THEN Return(s, o.kind)
           ELSE resourceTencentCloudCfsSnapshotReadBegin(
                    [s EXCEPT !.remote = VendorModify(@, [tags |-> s.attrs["tags"]])])
      [] OTHER -> resourceTencentCloudCfsSnapshotReadStep(s, o)

resourceTencentCloudCfsSnapshotDeleteBegin(s) ==
    Goto(s, "DeleteCfsSnapshotById")

resourceTencentCloudCfsSnapshotDeleteStep(s, o) ==
    CASE s.pc = "DeleteCfsSnapshotById" ->
           IF o.kind # "ok" THEN Return(s, o.kind)
           ELSE Goto([s EXCEPT !.remote = VendorDelete("cfs", @)],
                     "poll:DescribeCfsSnapshotById")
      [] s.pc = "poll:DescribeCfsSnapshotById" ->
           IF o.kind # "ok"
           THEN Retry(s, retryError(o.kind, {"internal"}), o.kind,
                      doubleReadRetryBudget, s)
           ELSE Retry(s, IF ~Exists(s.remote) THEN "nil" ELSE "retryable", "",
                      doubleReadRetryBudget, Return(s, ""))

-----------------------------------------------------------------------------
(* tencentcloud_mariadb_security_groups *)

\* instanceId + FILED_SP + securityGroupId + FILED_SP + product
JoinId(instanceId, securityGroupId, product) ==
    Chars(instanceId) \o <<FILED_SP>> \o Chars(securityGroupId)
        \o <<FILED_SP>> \o Chars(product)

\* idSplit := strings.Split(d.Id(), FILED_SP)
idSplit(s) == Split(s.id, FILED_SP)

\* a fault: only an identifier with too few parts is refused
idBrokenIfShort(s) == Len(idSplit(s)) < 3

\* if len(idSplit) != 3 { return fmt.Errorf("id is broken,%s", d.Id()) }
idBroken(s) == Len(idSplit(s)) # 3

\* the association the request names is the one the vendor holds
MariadbFound(s) ==
    LET p == idSplit(s)
    IN  /\ Exists(s.remote)
        /\ s.remote.attrs["instance_id"] = StrOf(p[1])
        /\ s.remote.attrs["security_group_id"] = StrOf(p[2])
        /\ s.remote.attrs["product"] = StrOf(p[3])

\* ModifyDBInstanceSecurityGroups: the instance's security groups become
\* the request's SecurityGroupIds
VendorModifySecurityGroups(r, req) ==
    [r EXCEPT !.st = "available", !.attrs = req, !.peers = {}]

\* a fault: the parts of the identifier taken in the wrong order
MariadbModifyRequestSwapped(s) ==
    LET p == idSplit(s)
    IN  [instance_id |-> StrOf(p[2]),
         security_group_id |-> StrOf(p[1]),
         product |-> StrOf(p[3])]

\* the ModifyDBInstanceSecurityGroups request Update builds from the parts
\* of the identifier
MariadbModifyRequest(s) ==
    LET p == idSplit(s)
    IN  [instance_id |-> StrOf(p[1]),
         security_group_id |-> StrOf(p[2]),
         product |-> StrOf(p[3])]

resourceTencentCloudMariadbSecurityGroupsReadBegin(s) ==
    IF idBroken(s) THEN Return([s EXCEPT !.populated = {}, !.pc = "read:idSplit"], "id is broken")
    ELSE Goto([s EXCEPT !.populated = {}], "read:DescribeMariadbSecurityGroup")

resourceTencentCloudMariadbSecurityGroupsReadStep(s, o) ==
    CASE s.pc = "read:DescribeMariadbSecurityGroup" ->
           IF o.kind # "ok" THEN Return(s, o.kind)
           ELSE IF ~MariadbFound(s)
                THEN Return([s EXCEPT !.id = EmptyId], "does not exist")
                ELSE LET p == idSplit(s)
                     IN  Return(SetAll(s, MariadbSchema,
                                   [instance_id |-> StrOf(p[1]),
                                    security_group_id |-> StrOf(p[2]),
                                    product |-> StrOf(p[3])]), "")

resourceTencentCloudMariadbSecurityGroupsCreateBegin(s) ==
    Goto(s, "AssociateSecurityGroups")

resourceTencentCloudMariadbSecurityGroupsCreateStep(s, o) ==
    CASE s.pc = "AssociateSecurityGroups" ->
           RetryCall(s, o, {}, writeRetryBudget,
               resourceTencentCloudMariadbSecurityGroupsReadBegin(
                   [s EXCEPT
                      !.remote = VendorCreate("mariadb", @,
                                    [a \in MariadbSchema |-> s.attrs[a]]),
                      !.id = JoinId(s.attrs["instance_id"],
                                    s.attrs["security_group_id"],
                                    s.attrs["product"])]))
      [] OTHER -> resourceTencentCloudMariadbSecurityGroupsReadStep(s, o)

resourceTencentCloudMariadbSecurityGroupsUpdateBegin(s) ==
    IF idBroken(s) THEN Return([s EXCEPT !.pc = "idSplit"], "id is broken")
    ELSE IF HasChange(s, "instance_id") THEN Return([s EXCEPT !.pc = "HasChange"], "immutable")
    ELSE IF HasChange(s, "security_group_id") THEN Return([s EXCEPT !.pc = "HasChange"], "immutable")
    ELSE IF HasChange(s, "product") THEN Return([s EXCEPT !.pc = "HasChange"], "immutable")
    ELSE Goto(s, "ModifyDBInstanceSecurityGroups")

resourceTencentCloudMariadbSecurityGroupsUpdateStep(s, o) ==
    CASE s.pc = "ModifyDBInstanceSecurityGroups" ->
           RetryCall(s, o, {}, writeRetryBudget,
               resourceTencentCloudMariadbSecurityGroupsReadBegin(
                   [s EXCEPT !.remote = VendorModifySecurityGroups(
                                 @, MariadbModifyRequest(s))]))
      [] OTHER -> resourceTencentCloudMariadbSecurityGroupsReadStep(s, o)

resourceTencentCloudMariadbSecurityGroupsDeleteBegin(s) ==
    IF idBroken(s) THEN Return([s EXCEPT !.pc = "idSplit"], "id is broken")
    ELSE Goto(s, "DeleteMariadbSecurityGroupsById")

resourceTencentCloudMariadbSecurityGroupsDeleteStep(s, o) ==
    CASE s.pc = "DeleteMariadbSecurityGroupsById" ->
           IF o.kind # "ok" THEN Return(s, o.kind)
           ELSE Return([s EXCEPT !.remote = VendorDelete("mariadb", @)], "")

-----------------------------------------------------------------------------
(* tencentcloud_tsf_application_config *)

TsfImmutableArgs ==
    << "config_name", "config_version", "config_value", "application_id",
       "config_version_desc", "config_type", "encode_with_base64",
       "program_id_list" >>

resourceTencentCloudTsfApplicationConfigReadBegin(s) ==
    Goto([s EXCEPT !.populated = {}], "read:DescribeTsfApplicationConfigById")

resourceTencentCloudTsfApplicationConfigReadStep(s, o) ==
    CASE s.pc = "read:DescribeTsfApplicationConfigById" ->
           IF o.kind # "ok" THEN Return(s, o.kind)
           ELSE IF ~Exists(s.remote) THEN Return([s EXCEPT !.id = EmptyId], "")
           ELSE Return(SetFrom(s, {"config_name", "config_version", "config_value",
                                   "application_id", "config_version_desc",
                                   "config_type"}), "")

resourceTencentCloudTsfApplicationConfigCreateBegin(s) ==
    Goto(s, "CreateConfig")

resourceTencentCloudTsfApplicationConfigCreateStep(s, o) ==
    CASE s.pc = "CreateConfig" ->
           RetryCall(s, o, {}, writeRetryBudget,
               IF o.x = "true"
               THEN Goto([s EXCEPT !.remote = VendorCreate("tsf", @,
                              [a \in TsfSchema |-> s.attrs[a]])],
                         "DescribeTsfApplicationConfigById")
               ELSE Return(s, "Creation failed"))
      [] s.pc = "DescribeTsfApplicationConfigById" ->
           IF o.kind # "ok" THEN Return(s, o.kind)
           \* *applicationConfig.ConfigId with applicationConfig == nil
           ELSE IF ~Exists(s.remote) THEN Return(s, "panic")
           ELSE resourceTencentCloudTsfApplicationConfigReadBegin(
                    [s EXCEPT !.id = VendorId])
      [] OTHER -> resourceTencentCloudTsfApplicationConfigReadStep(s, o)

resourceTencentCloudTsfApplicationConfigUpdateBegin(s) ==
    IF \E i \in 1..Len(TsfImmutableArgs) : HasChange(s, TsfImmutableArgs[i])
    THEN Return([s EXCEPT !.pc = "HasChange"], "immutable")
    ELSE resourceTencentCloudTsfApplicationConfigReadBegin(s)

resourceTencentCloudTsfApplicationConfigUpdateStep(s, o) ==
    resourceTencentCloudTsfApplicationConfigReadStep(s, o)

resourceTencentCloudTsfApplicationConfigDeleteBegin(s) ==
    Goto(s, "DeleteTsfApplicationConfigById")

resourceTencentCloudTsfApplicationConfigDeleteStep(s, o) ==
    CASE s.pc = "DeleteTsfApplicationConfigById" ->
           IF o.kind # "ok" THEN Return(s, o.kind)
           ELSE Return([s EXCEPT !.remote = VendorDelete("tsf", @)], "")

-----------------------------------------------------------------------------
(* tencentcloud_eip *)

\* d.SetPartial(a)
SetPartial(s, a) == [s EXCEPT !.partial.keys = @ \cup {a}]

resourceTencentCloudEipReadBegin(s) ==
    Goto([s EXCEPT !.populated = {}], "read:DescribeEipById")

resourceTencentCloudEipReadStep(s, o) ==
    CASE s.pc = "read:DescribeEipById" ->
           RetryCall(s, o, {}, readRetryBudget,
               IF ~Exists(s.remote) THEN Return([s EXCEPT !.id = EmptyId], "")
               ELSE Goto(s, "read:DescribeResourceTags"))
      [] s.pc = "read:DescribeResourceTags" ->
           IF o.kind # "ok" THEN Return(s, o.kind)
           ELSE Goto(s, "read:DescribeVpcBandwidthPackageByEip")
      [] s.pc = "read:DescribeVpcBandwidthPackageByEip" ->
           IF o.kind # "ok" THEN Return(s, o.kind)
           ELSE LET obs == [s.remote.attrs EXCEPT
                              !["status"] = StateName("eip", s.remote.st)]
                    n == SetAll(s, {"name", "type", "public_ip", "status",
                                    "internet_charge_type", "tags"}, obs)
                IN  Return(SetFrom(n, {"bandwidth_package_id"}), "")

\* the steps of Create after the tag assignment
EipCreateAfterPoll(s) ==
    IF GetOk(s, "name") THEN Goto(s, "ModifyEipName")
    ELSE resourceTencentCloudEipReadBegin(s)

\* the steps of Create after d.SetId(eipId)
EipCreateAfterSetId(s) ==
    IF HasTags(s) THEN Goto(s, "ModifyTags")
    ELSE Goto(s, "poll:DescribeEipById")

resourceTencentCloudEipCreateBegin(s) ==
    Goto(s, "AllocateAddresses")

resourceTencentCloudEipCreateStep(s, o) ==
    CASE s.pc = "AllocateAddresses" ->
           Retry(s, IF o.kind # "ok" THEN retryError(o.kind, {})
                    ELSE IF o.x = "empty" THEN "retryable" ELSE "nil",
                 o.kind, writeRetryBudget,
                 EipCreateAfterSetId(
                     [s EXCEPT
                        !.remote = VendorCreate("eip", @,
                            [a \in {"type", "anycast_zone", "internet_service_provider",
                                    "internet_charge_type", "internet_max_bandwidth_out",
                                    "tags", "bandwidth_package_id"} |-> s.attrs[a]]),
                        !.id = VendorId]))
      [] s.pc = "ModifyTags" ->
           IF o.kind # "ok" THEN Return(s, o.kind)
           ELSE Goto([s EXCEPT !.remote = VendorModify(@, [tags |-> s.attrs["tags"]])],
                     "poll:DescribeEipById")
      [] s.pc = "poll:DescribeEipById" ->
           IF o.kind # "ok"
           THEN Retry(s, retryError(o.kind, {}), o.kind, readRetryBudget, s)
           ELSE Retry(s, IF Exists(s.remote) /\ StateName("eip", s.remote.st) = EIP_STATUS_CREATING
                         THEN "retryable" ELSE "nil",
                      "", readRetryBudget, EipCreateAfterPoll(s))
      [] s.pc = "ModifyEipName" ->
           RetryCall(s, o, {}, writeRetryBudget,
               resourceTencentCloudEipReadBegin(
                   [s EXCEPT !.remote = VendorModify(@, [name |-> s.attrs["name"]])]))
      [] OTHER -> resourceTencentCloudEipReadStep(s, o)

\* Update from its k-th step on: 1 name, 2 internet_max_bandwidth_out,
\* 3 tags, 4 d.Partial(false) and Read
RECURSIVE EipUpdateFrom(_, _)
EipUpdateFrom(s, k) ==
    CASE k = 1 -> IF HasChange(s, "name") THEN Goto(s, "ModifyEipName")
                  ELSE EipUpdateFrom(s, 2)
      [] k = 2 -> IF HasChange(s, "internet_max_bandwidth_out")
                     /\ GetOk(s, "internet_max_bandwidth_out")
                  THEN Goto(s, "ModifyEipBandwidthOut")
                  ELSE EipUpdateFrom(s, 3)
      [] k = 3 -> IF HasChange(s, "tags") THEN Goto(s, "ModifyTags")
                  ELSE EipUpdateFrom(s, 4)
      [] OTHER -> resourceTencentCloudEipReadBegin([s EXCEPT !.partial.on = FALSE])

resourceTencentCloudEipUpdateBegin(s) ==
    LET p == [s EXCEPT !.partial = [on |-> TRUE, keys |-> {}]]
    IN  IF HasChange(p, "bandwidth_package_id")
        THEN Return([p EXCEPT !.pc = "HasChange"], "immutable")
        ELSE EipUpdateFrom(p, 1)

resourceTencentCloudEipUpdateStep(s, o) ==
    CASE s.pc = "ModifyEipName" ->
           IF o.kind # "ok" THEN Return(s, o.kind)
           ELSE EipUpdateFrom(
                    SetPartial([s EXCEPT !.remote = VendorModify(@, [name |-> s.attrs["name"]])],
                               "name"), 2)
      [] s.pc = "ModifyEipBandwidthOut" ->
           IF o.kind # "ok" THEN Return(s, o.kind)
           ELSE EipUpdateFrom(
                    SetPartial([s EXCEPT !.remote = VendorModify(@,
                                   [internet_max_bandwidth_out |-> s.attrs["internet_max_bandwidth_out"]])],
                               "internet_max_bandwidth_out"), 3)
      [] s.pc = "ModifyTags" ->
           IF o.kind # "ok" THEN Return(s, o.kind)
           ELSE EipUpdateFrom(
                    SetPartial([s EXCEPT !.remote = VendorModify(@, [tags |-> s.attrs["tags"]])],
                               "tags"), 4)
      [] OTHER -> resourceTencentCloudEipReadStep(s, o)

\* a fault: every error of the describe call is answered with another try
EipDeletePollRetriesAll(s, o) ==
    IF o.kind # "ok"
    THEN Retry(s, "retryable", o.kind, readRetryBudget, s)
    ELSE Retry(s, IF Exists(s.remote) THEN "retryable" ELSE "nil",
               "", readRetryBudget, Return(s, ""))

\* one iteration of Delete's wait for the address to be gone
EipDeletePoll(s, o) ==
    IF o.kind # "ok"
    THEN Retry(s, retryError(o.kind, {}), o.kind, readRetryBudget, s)
    ELSE Retry(s, IF Exists(s.remote) THEN "retryable" ELSE "nil",
               "", readRetryBudget, Return(s, ""))

\* a fault: DeleteEip follows whatever UnattachEip answered
EipDeleteUnattachIgnored(s, o) == Goto(s, "DeleteEip")

\* Delete's first loop: UnattachEip, repeated while the address is busy;
\* its error is Delete's error
EipDeleteUnattach(s, o) ==
    RetryCall(s, o, {"busy"}, writeRetryBudget, Goto(s, "DeleteEip"))

resourceTencentCloudEipDeleteBegin(s) ==
    Goto(s, "UnattachEip")

resourceTencentCloudEipDeleteStep(s, o) ==
    CASE s.pc = "UnattachEip" -> EipDeleteUnattach(s, o)
      [] s.pc = "DeleteEip" ->
           RetryCall(s, o, {"busy"}, writeRetryBudget,
               Goto([s EXCEPT !.remote = VendorDelete("eip", @)], "poll:DescribeEipById"))
      [] s.pc = "poll:DescribeEipById" -> EipDeletePoll(s, o)

-----------------------------------------------------------------------------
(* tencentcloud_vpn_gateway *)

VpnUnsupportedUpdateFields == << "prepaid_period", "type" >>

\* the attributes Read writes from the DescribeVpnGateways response
VpnReadAttrs ==
    {"name", "public_ip_address", "bandwidth", "type", "create_time", "state",
     "prepaid_renew_flag", "charge_type", "expired_time", "is_address_blocked",
     "new_purchase_plan", "restrict_state", "zone", "cdc_id", "max_connection"}

resourceTencentCloudVpnGatewayReadBegin(s) ==
    Goto([s EXCEPT !.populated = {}], "read:DescribeVpngwById")

resourceTencentCloudVpnGatewayReadStep(s, o) ==
    CASE s.pc = "read:DescribeVpngwById" ->
           IF o.kind # "ok" THEN Return(s, o.kind)
           ELSE IF ~Exists(s.remote) THEN Return([s EXCEPT !.id = EmptyId], "")
           ELSE Goto(SetAll(s, VpnReadAttrs,
                            [s.remote.attrs EXCEPT
                               !["state"] = StateName("vpn", s.remote.st)]),
                     "read:DescribeResourceTags")
      [] s.pc = "read:DescribeResourceTags" ->
           IF o.kind # "ok" THEN Return(s, o.kind)
           ELSE Return(SetAll(s, {"tags"}, s.remote.attrs), "")

\* a fault: a vpc_id given for a gateway of type CCN is let through
VpnCreateCheckIgnoresCcn(s) ==
    IF GetOk(s, "type") /\ s.attrs["type"] = GATE_WAY_TYPE_CCN THEN ""
    ELSE IF ~GetOk(s, "vpc_id") THEN "vpc_id is required" ELSE ""

\* the request's vpc_id check: "" when the request is built, else the error
VpnCreateCheck(s) ==
    IF GetOk(s, "type")
    THEN IF s.attrs["type"] # GATE_WAY_TYPE_CCN
         THEN IF ~GetOk(s, "vpc_id") THEN "vpc_id is required" ELSE ""
         ELSE IF GetOk(s, "vpc_id") THEN "vpc_id doesn't make sense" ELSE ""
    ELSE IF ~GetOk(s, "vpc_id") THEN "vpc_id is required" ELSE ""

\* the fields of the CreateVpnGateway request
VpnCreateRequest(s) ==
    [a \in {"name", "bandwidth", "zone", "charge_type", "type", "vpc_id",
            "cdc_id", "max_connection", "prepaid_period", "prepaid_renew_flag"}
        |-> IF a = "vpc_id" /\ s.attrs["type"] = GATE_WAY_TYPE_CCN THEN ""
            ELSE IF /\ a \in {"prepaid_period", "prepaid_renew_flag"}
                    /\ s.attrs["charge_type"] # VPN_CHARGE_TYPE_PREPAID THEN ""
            ELSE s.attrs[a]]

\* a fault: the wait ends as soon as the gateway is listed, whatever its state
VpnCreatePollAnyState(s) ==
    IF ~Exists(s.remote) THEN "nonretryable" ELSE "nil"

\* what one iteration of Create's wait makes of the DescribeVpnGateways
\* response: not exactly one gateway is an error, State AVAILABLE ends the
\* wait, any other state keeps it waiting
VpnCreatePollClass(s) ==
    IF ~Exists(s.remote) THEN "nonretryable"
    ELSE IF StateName("vpn", s.remote.st) = VPN_STATE_AVAILABLE THEN "nil"
    ELSE "retryable"

resourceTencentCloudVpnGatewayCreateBegin(s) ==
    IF VpnCreateCheck(s) # ""
    THEN Return([s EXCEPT !.pc = "GetOk"], VpnCreateCheck(s))
    ELSE Goto(s, "CreateVpnGateway")

resourceTencentCloudVpnGatewayCreateStep(s, o) ==
    CASE s.pc = "CreateVpnGateway" ->
           RetryCall(s, o, {}, readRetryBudget,
               IF o.x = "nil" THEN Return(s, "VPN gateway id is nil")
               ELSE Goto([s EXCEPT
                            !.remote = VendorCreate("vpn", @, VpnCreateRequest(s)),
                            !.id = VendorId],
                         "poll:DescribeVpnGateways"))
      [] s.pc = "poll:DescribeVpnGateways" ->
           IF o.kind # "ok"
           THEN Retry(s, retryError(o.kind, {}), o.kind, doubleReadRetryBudget, s)
           ELSE Retry(s, VpnCreatePollClass(s),
                      "creating error", doubleReadRetryBudget,
                      IF HasTags(s) THEN Goto(s, "ModifyTags")
                      ELSE resourceTencentCloudVpnGatewayReadBegin(s))
      [] s.pc = "ModifyTags" ->
           IF o.kind # "ok" THEN Return(s, o.kind)
           ELSE resourceTencentCloudVpnGatewayReadBegin(
                    [s EXCEPT !.remote = VendorModify(@, [tags |-> s.attrs["tags"]])])
      [] OTHER -> resourceTencentCloudVpnGatewayReadStep(s, o)

\* a fault: no change of charge type is refused
VpnChargeTypeChangeAllowed(s) == FALSE

\* oldChargeType == VPN_CHARGE_TYPE_POSTPAID_BY_HOUR &&
\* newChargeType == VPN_CHARGE_TYPE_PREPAID
VpnChargeTypeChangeRefused(s) ==
    /\ s.old["charge_type"] = VPN_CHARGE_TYPE_POSTPAID_BY_HOUR
    /\ s.attrs["charge_type"] = VPN_CHARGE_TYPE_PREPAID

\* Update from its k-th step on: 1 prepaid_renew_flag, 2 name and
\* charge_type, 3 bandwidth, 4 tags, 5 cdc_id and max_connection, then
\* d.Partial(false) and Read
RECURSIVE VpnUpdateFrom(_, _)
VpnUpdateFrom(s, k) ==
    CASE k = 1 ->
           IF HasChange(s, "prepaid_renew_flag")
           THEN IF s.attrs["charge_type"] # VPN_CHARGE_TYPE_PREPAID
                THEN Return([s EXCEPT !.pc = "HasChange"], "Invalid renew flag change")
                ELSE Goto(s, "SetVpnGatewaysRenewFlag")
           ELSE VpnUpdateFrom(s, 2)
      [] k = 2 ->
           IF HasChange(s, "name") \/ HasChange(s, "charge_type")
           THEN IF VpnChargeTypeChangeRefused(s)
                THEN Return([s EXCEPT !.pc = "HasChange"], "Invalid charge type change")
                ELSE Goto(s, "ModifyVpnGatewayAttribute")
           ELSE VpnUpdateFrom(s, 3)
      [] k = 3 ->
           IF HasChange(s, "bandwidth")
           THEN Goto(s, "ResetVpnGatewayInternetMaxBandwidth")
           ELSE VpnUpdateFrom(s, 4)
      [] k = 4 ->
           IF HasChange(s, "tags") THEN Goto(s, "ModifyTags")
           ELSE VpnUpdateFrom(s, 5)
      [] OTHER ->
           IF HasChange(s, "cdc_id") \/ HasChange(s, "max_connection")
           THEN Return([s EXCEPT !.pc = "HasChange"], "immutable")
           ELSE resourceTencentCloudVpnGatewayReadBegin([s EXCEPT !.partial.on = FALSE])

resourceTencentCloudVpnGatewayUpdateBegin(s) ==
    LET p == [s EXCEPT !.partial = [on |-> TRUE, keys |-> {}]]
    IN  IF \E i \in 1..Len(VpnUnsupportedUpdateFields) :
               HasChange(p, VpnUnsupportedUpdateFields[i])
        THEN Return([p EXCEPT !.pc = "HasChange"], "immutable")
        ELSE VpnUpdateFrom(p, 1)

\* the fields of the ModifyVpnGatewayAttribute request
VpnModifyRequest(s) ==
    Fields([name |-> s.attrs["name"],
            charge_type |->
               IF /\ s.old["charge_type"] = VPN_CHARGE_TYPE_PREPAID
                  /\ s.attrs["charge_type"] = VPN_CHARGE_TYPE_POSTPAID_BY_HOUR
               THEN s.attrs["charge_type"] ELSE ""])

resourceTencentCloudVpnGatewayUpdateStep(s, o) ==
    CASE s.pc = "SetVpnGatewaysRenewFlag" ->
           RetryCall(s, o, {}, readRetryBudget,
               VpnUpdateFrom(
                   [s EXCEPT !.remote = VendorModify(@,
                        [prepaid_renew_flag |->
                            IF s.attrs["prepaid_renew_flag"] = "NOTIFY_AND_AUTO_RENEW"
                            THEN "NOTIFY_AND_AUTO_RENEW" ELSE "NOTIFY_AND_MANUAL_RENEW"])],
                   2))
      [] s.pc = "ModifyVpnGatewayAttribute" ->
           RetryCall(s, o, {}, readRetryBudget,
               LET n  == [s EXCEPT !.remote = VendorModify(@, VpnModifyRequest(s))]
                   n1 == IF HasChange(s, "name") THEN SetPartial(n, "name") ELSE n
                   n2 == IF HasChange(s, "charge_type") THEN SetPartial(n1, "charge_type") ELSE n1
               IN  VpnUpdateFrom(n2, 3))
      [] s.pc = "ResetVpnGatewayInternetMaxBandwidth" ->
           RetryCall(s, o, {}, readRetryBudget,
               VpnUpdateFrom(
                   SetPartial([s EXCEPT !.remote = VendorModify(@,
                                  [bandwidth |-> s.attrs["bandwidth"]])], "bandwidth"),
                   4))
      [] s.pc = "ModifyTags" ->
           IF o.kind # "ok" THEN Return(s, o.kind)
           ELSE VpnUpdateFrom(
                    SetPartial([s EXCEPT !.remote = VendorModify(@, [tags |-> s.attrs["tags"]])],
                               "tags"), 5)
      [] OTHER -> resourceTencentCloudVpnGatewayReadStep(s, o)

\* a fault: the gateway's attachment to a CCN instance is not looked at
VpnPreDeleteIgnoresCcn(s, o) ==
    IF ~Exists(s.remote) THEN "nil"
    ELSE IF /\ s.remote.attrs["charge_type"] = VPN_CHARGE_TYPE_PREPAID
            /\ o.x \in {"unparsable", "future"}
         THEN "nonretryable"
    ELSE "nil"

\* what Delete makes of the DescribeVpnGateways response before it deletes:
\* an empty set lets it go on; a prepaid gateway whose expiry time cannot
\* be parsed or lies in the future, and a gateway of type CCN with a
\* NetworkInstanceId, are non-retryable errors
VpnPreDeleteClass(s, o) ==
    IF ~Exists(s.remote) THEN "nil"
    ELSE IF /\ s.remote.attrs["charge_type"] = VPN_CHARGE_TYPE_PREPAID
            /\ o.x \in {"unparsable", "future"}
         THEN "nonretryable"
    ELSE IF s.remote.attrs["type"] = GATE_WAY_TYPE_CCN /\ o.ccn
         THEN "nonretryable"
    ELSE "nil"

\* a fault: the connections the query lists are not looked at
VpnConnectionsIgnored(o) == "nil"

\* what Delete makes of the DescribeVpnConnections response: an empty
\* VpnConnectionSet lets it go on, any connection is a non-retryable error
VpnConnectionsClass(o) ==
    IF o.x = "none" THEN "nil" ELSE "nonretryable"

resourceTencentCloudVpnGatewayDeleteBegin(s) ==
    Goto(s, "pre:DescribeVpnGateways")

resourceTencentCloudVpnGatewayDeleteStep(s, o) ==
    CASE s.pc = "pre:DescribeVpnGateways" ->
           \* o.x: what the response's ExpiredTime is against the clock;
           \* o.ccn: whether its NetworkInstanceId is set
           IF o.kind # "ok"
           THEN Retry(s, retryError(o.kind, {}), o.kind, readRetryBudget, s)
           ELSE Retry(s, VpnPreDeleteClass(s, o),
                  "Delete operation is unsupported", readRetryBudget,
                  Goto(s, "DescribeVpnConnections"))
      [] s.pc = "DescribeVpnConnections" ->
           IF o.kind # "ok"
           THEN Retry(s, retryError(o.kind, {}), o.kind, readRetryBudget, s)
           ELSE Retry(s, VpnConnectionsClass(o),
                      "associated tunnel exists", readRetryBudget,
                      Goto(s, "DeleteVpnGateway"))
      [] s.pc = "DeleteVpnGateway" ->
           RetryCall(s, o, {}, writeRetryBudget,
               Goto([s EXCEPT !.remote = VendorDelete("vpn", @)],
                    "poll:DescribeVpnGateways"))
      [] s.pc = "poll:DescribeVpnGateways" ->
           IF o.kind = "notfound" THEN Return(s, "")
           ELSE IF o.kind # "ok"
           THEN Retry(s, retryError(o.kind, {}), o.kind, readRetryBudget, s)
           ELSE Retry(s, IF ~Exists(s.remote) THEN "nil" ELSE "retryable",
                      "", readRetryBudget, Return(s, ""))

-----------------------------------------------------------------------------
(* Data sources *)

\* helper.DataResourceIdsHash(ids): a digest of the ids, never empty
DataResourceIdsHash(x) == <<"h", x>>

\* the end of a data source's Read: result_output_file
DataSourceOutput(s) ==
    IF GetOk(s, "result_output_file") THEN Goto(s, "writeToFile")
    ELSE Return(s, "")

dataSourceTencentCloudServiceTemplatesReadBegin(s) ==
    Goto([s EXCEPT !.populated = {}], "DescribeServiceTemplates")

\* from `ids := make(...)` on, with the templates the call returned
ServiceTemplatesResult(s, x) ==
    DataSourceOutput(SetAll([s EXCEPT !.id = DataResourceIdsHash(x)],
                            {"template_list"}, [template_list |-> x]))

dataSourceTencentCloudServiceTemplatesReadStep(s, o) ==
    CASE s.pc = "DescribeServiceTemplates" ->
           IF o.kind # "ok" THEN Goto(s, "retry:DescribeServiceTemplates")
           ELSE ServiceTemplatesResult(s, o.x)
      [] s.pc = "retry:DescribeServiceTemplates" ->
           RetryCall(s, o, {}, readRetryBudget, ServiceTemplatesResult(s, o.x))
      [] s.pc = "writeToFile" ->
           IF o.kind # "ok" THEN Return(s, o.kind) ELSE Return(s, "")

dataSourceTencentCloudDbbrainSecurityAuditLogExportTasksReadBegin(s) ==
    Goto([s EXCEPT !.populated = {}],
         "DescribeDbbrainSecurityAuditLogExportTasksByFilter")

dataSourceTencentCloudDbbrainSecurityAuditLogExportTasksReadStep(s, o) ==
    CASE s.pc = "DescribeDbbrainSecurityAuditLogExportTasksByFilter" ->
           RetryCall(s, o, {}, readRetryBudget,
               DataSourceOutput(
                   IF o.x # "nil"
                   THEN SetAll([s EXCEPT !.id = DataResourceIdsHash(o.x)],
                               {"list"}, [list |-> o.x])
                   ELSE s))
      [] s.pc = "writeToFile" ->
           IF o.kind # "ok" THEN Return(s, o.kind) ELSE Return(s, "")

-----------------------------------------------------------------------------
(* What the vendor can answer at each call site *)

Errors == {Out("transient"), Out("fatal")}

Outcomes(site, r) ==
    CASE site = "CreateConfig" ->
           {OutX("ok", "true"), OutX("ok", "false"), LostAnswer} \cup Errors
      [] site = "AllocateAddresses" ->
           {OutX("ok", "one"), OutX("ok", "empty"), LostAnswer} \cup Errors
      [] site = "CreateVpnGateway" ->
           {Out("ok"), OutX("ok", "nil"), LostAnswer} \cup Errors
      [] site = "CreateCfsSnapshot" ->
           CreateOutcomes \cup {LostAnswer}
      [] site = "AssociateSecurityGroups" ->
           CreateOutcomes
      [] site = "pre:DescribeVpnGateways" ->
           (DescribeVpnGatewaysOutcomes(r) \ {Out("ok")}) \cup
           { [kind |-> "ok", x |-> e, ccn |-> c] :
               e \in (IF Exists(r) /\ r.attrs["charge_type"] = VPN_CHARGE_TYPE_PREPAID
                      THEN {"zero", "unparsable", "future", "past"} ELSE {"zero"}),
               c \in (IF Exists(r) /\ r.attrs["type"] = GATE_WAY_TYPE_CCN
                      THEN BOOLEAN ELSE {FALSE}) }
      [] site = "DescribeVpnConnections" ->
           {OutX("ok", "none")} \cup Errors
               \cup (IF Exists(r) THEN {OutX("ok", "some")} ELSE {})
      [] site = "poll:DescribeVpnGateways" -> DescribeVpnGatewaysOutcomes(r)
      [] site = "poll:DescribeCfsSnapshotById" ->
           DescribeOutcomes \cup {Out("internal")}
      [] site \in {"UnattachEip", "DeleteEip"} ->
           MutateOutcomes(r) \cup {Out("busy")}
      [] site \in {"DescribeServiceTemplates", "retry:DescribeServiceTemplates"} ->
           {OutX("ok", "none"), OutX("ok", "some")} \cup Errors
      [] site = "DescribeDbbrainSecurityAuditLogExportTasksByFilter" ->
           {OutX("ok", "nil"), OutX("ok", "empty"), OutX("ok", "some")} \cup Errors
      [] site = "writeToFile" ->
           {Out("ok"), Out("fatal")}
      [] site \in {"read:DescribeCfsSnapshotById", "read:DescribeResourceTags",
                   "read:DescribeMariadbSecurityGroup",
                   "read:DescribeTsfApplicationConfigById",
                   "DescribeTsfApplicationConfigById", "read:DescribeEipById",
                   "read:DescribeVpcBandwidthPackageByEip", "poll:DescribeEipById",
                   "read:DescribeVpngwById"} ->
           DescribeOutcomes
      [] OTHER -> MutateOutcomes(r)

-----------------------------------------------------------------------------
(* The configuration engine *)

\* the values an Update may bring, per attribute the engine passes to
\* Update (a ForceNew attribute is replaced, never updated)
UpdateDomain(t) ==
    CASE t = "cfs" -> [snapshot_name |-> {"", "n1"}, tags |-> {"", "t1"}]
      [] t = "mariadb" -> [instance_id |-> {"ins", "ins2"},
                           security_group_id |-> {"sg", "sg2"},
                           product |-> {"maria", "other"}]
      [] t = "vpn" -> [name |-> {"n1", "n2"},
                       charge_type |-> {VPN_CHARGE_TYPE_PREPAID, VPN_CHARGE_TYPE_POSTPAID_BY_HOUR},
                       prepaid_renew_flag |-> {"NOTIFY_AND_AUTO_RENEW", "NOTIFY_AND_MANUAL_RENEW"},
                       prepaid_period |-> {"1", "2"},
                       bandwidth |-> {"5", "10"},
                       tags |-> {"", "t1"},
                       cdc_id |-> {"", "cdc"}]
      [] t = "eip" -> [name |-> {"n1", "n2"},
                       internet_max_bandwidth_out |-> {"", "5"},
                       tags |-> {"", "t1"},
                       bandwidth_package_id |-> {"", "bwp"}]
      [] t = "tsf" -> [config_value |-> {"v", "v2"},
                       encode_with_base64 |-> {"", "true"},
                       config_version_desc |-> {"", "d"}]

UpdateInputs(t, cur, room) ==
    LET D == UpdateDomain(t)
    IN  UNION { { f \in [C -> UNION {D[a] : a \in C}] :
                    \A a \in C : f[a] \in D[a] /\ f[a] # cur[a] }
                : C \in {c \in SUBSET DOMAIN D : Cardinality(c) <= room} }

\* the remote object proper: its lifecycle status and its fields
Object(r) == [st |-> r.st, attrs |-> r.attrs]

\* the observer of Create, Read, Update(no change), Read: k counts the
\* steps of the sequence done, the snapshot is taken after the first Read
MonNext(n, o, nid, nat) ==
    IF n.pc # "returned" THEN mon
    ELSE LET ok == n.result.status = "ok" /\ nid # EmptyId
         IN  CASE o = "Create" /\ ok -> [NoMon EXCEPT !.k = 1]
               [] o = "Read" /\ ok /\ mon.k = 1 ->
                      [k |-> 2, attrs |-> nat, remote |-> Object(n.remote)]
               [] o = "Update" /\ ok /\ mon.k = 2 /\ input = NoInput ->
                      [mon EXCEPT !.k = 3]
               [] o = "Read" /\ ok /\ mon.k = 3 -> [mon EXCEPT !.k = 4]
               [] OTHER -> NoMon

\* the engine takes over what the handler left: a Delete that returned nil
\* removes the instance from the state, an Update that failed in partial
\* mode keeps only the keys given to SetPartial
Install(n, o) ==
    LET fin == n.pc = "returned"
        nid == IF fin /\ o = "Delete" /\ n.result.status = "ok" THEN EmptyId ELSE n.id
        nat == IF fin /\ nid = EmptyId /\ rtype \in RTypes THEN config
               ELSE IF fin /\ o = "Update" /\ n.result.status = "error" /\ n.partial.on
               THEN [a \in DOMAIN n.attrs |->
                        IF a \in n.partial.keys THEN n.attrs[a] ELSE n.old[a]]
               ELSE n.attrs
    IN  /\ id' = nid
        /\ attrs' = nat
        /\ remote' = n.remote
        /\ pc' = n.pc
        /\ attempts' = n.attempts
        /\ result' = n.result
        /\ populated' = n.populated
        /\ partial' = IF fin THEN NoPartial ELSE n.partial
        /\ old' = IF fin THEN nat ELSE n.old
        /\ mon' = MonNext(n, o, nid, nat)

\* the state a handler starts from, given the new values inp
Fresh(inp) ==
    [S EXCEPT !.attrs = Over(attrs, inp), !.old = attrs, !.result = NoResult,
              !.partial = NoPartial, !.attempts = 0]

Tracked == id # EmptyId

\* the engine calls handler o of type t; n is the handler's state at its
\* first call site or at its early return
Start(t, o, inp, n) ==
    /\ pc = "idle"
    /\ rtype = t
    /\ op' = o
    /\ gone' = ~Exists(remote)
    /\ input' = inp
    /\ changed' = changed + Cardinality(DOMAIN inp)
    /\ calls' = << >>
    /\ last' = NoCall
    /\ made' = 0
    /\ Install(n, o)
    /\ UNCHANGED << rtype, config >>

Running(t, o) == pc \notin {"idle", "returned"} /\ rtype = t /\ op = o

\* the call at pc returns out; n is the handler's state at its next call
\* site or at its return
Continue(o, out, n) ==
    /\ calls' = IF calls # << >> /\ calls[Len(calls)] = pc THEN calls
                ELSE Append(calls, pc)
    /\ last' = [site |-> pc, kind |-> out.kind, x |-> out.x, ccn |-> out.ccn]
    /\ made' = MadeNext(pc, out, made)
    /\ Install(n, o)
    /\ UNCHANGED << rtype, config, op, gone, input, changed >>

-----------------------------------------------------------------------------
(* The handlers as actions: the engine's call, then one step per vendor    *)
(* call                                                                    *)

resourceTencentCloudCfsSnapshotCreate ==
    \/ /\ ~Tracked /\ rtype = "cfs" /\ pc = "idle"
       /\ \E s \in {Fresh(NoInput)} : \E n \in { resourceTencentCloudCfsSnapshotCreateBegin(s) } :
            Start("cfs", "Create", NoInput, n)
    \/ /\ Running("cfs", "Create")
       /\ \E out \in Outcomes(pc, remote) :
            \E s \in {S} : \E n \in { resourceTencentCloudCfsSnapshotCreateStep(s, out) } :
                Continue("Create", out, n)

resourceTencentCloudCfsSnapshotRead ==
    \/ /\ Tracked /\ rtype = "cfs" /\ pc = "idle"
       /\ \E s \in {Fresh(NoInput)} : \E n \in { resourceTencentCloudCfsSnapshotReadBegin(s) } :
            Start("cfs", "Read", NoInput, n)
    \/ /\ Running("cfs", "Read")
       /\ \E out \in Outcomes(pc, remote) :
            \E s \in {S} : \E n \in { resourceTencentCloudCfsSnapshotReadStep(s, out) } :
                Continue("Read", out, n)

resourceTencentCloudCfsSnapshotUpdate ==
    \/ /\ Tracked /\ rtype = "cfs" /\ pc = "idle"
       /\ \E inp \in UpdateInputs("cfs", attrs, MaxChanged - changed) :
            \E s \in {Fresh(inp)} : \E n \in { resourceTencentCloudCfsSnapshotUpdateBegin(s) } :
                Start("cfs", "Update", inp, n)
    \/ /\ Running("cfs", "Update")
       /\ \E out \in Outcomes(pc, remote) :
            \E s \in {S} : \E n \in { resourceTencentCloudCfsSnapshotUpdateStep(s, out) } :
                Continue("Update", out, n)

resourceTencentCloudCfsSnapshotDelete ==
    \/ /\ Tracked /\ rtype = "cfs" /\ pc = "idle"
       /\ \E s \in {Fresh(NoInput)} : \E n \in { resourceTencentCloudCfsSnapshotDeleteBegin(s) } :
            Start("cfs", "Delete", NoInput, n)
    \/ /\ Running("cfs", "Delete")
       /\ \E out \in Outcomes(pc, remote) :
            \E s \in {S} : \E n \in { resourceTencentCloudCfsSnapshotDeleteStep(s, out) } :
                Continue("Delete", out, n)

resourceTencentCloudMariadbSecurityGroupsCreate ==
    \/ /\ ~Tracked /\ rtype = "mariadb" /\ pc = "idle"
       /\ \E s \in {Fresh(NoInput)} : \E n \in { resourceTencentCloudMariadbSecurityGroupsCreateBegin(s) } :
            Start("mariadb", "Create", NoInput, n)
    \/ /\ Running("mariadb", "Create")
       /\ \E out \in Outcomes(pc, remote) :
            \E s \in {S} : \E n \in { resourceTencentCloudMariadbSecurityGroupsCreateStep(s, out) } :
                Continue("Create", out, n)

resourceTencentCloudMariadbSecurityGroupsRead ==
    \/ /\ Tracked /\ rtype = "mariadb" /\ pc = "idle"
       /\ \E s \in {Fresh(NoInput)} : \E n \in { resourceTencentCloudMariadbSecurityGroupsReadBegin(s) } :
            Start("mariadb", "Read", NoInput, n)
    \/ /\ Running("mariadb", "Read")
       /\ \E out \in Outcomes(pc, remote) :
            \E s \in {S} : \E n \in { resourceTencentCloudMariadbSecurityGroupsReadStep(s, out) } :
                Continue("Read", out, n)

resourceTencentCloudMariadbSecurityGroupsUpdate ==
    \/ /\ Tracked /\ rtype = "mariadb" /\ pc = "idle"
       /\ \E inp \in UpdateInputs("mariadb", attrs, MaxChanged - changed) :
            \E s \in {Fresh(inp)} : \E n \in { resourceTencentCloudMariadbSecurityGroupsUpdateBegin(s) } :
                Start("mariadb", "Update", inp, n)
    \/ /\ Running("mariadb", "Update")
       /\ \E out \in Outcomes(pc, remote) :
            \E s \in {S} : \E n \in { resourceTencentCloudMariadbSecurityGroupsUpdateStep(s, out) } :
                Continue("Update", out, n)

resourceTencentCloudMariadbSecurityGroupsDelete ==
    \/ /\ Tracked /\ rtype = "mariadb" /\ pc = "idle"
       /\ \E s \in {Fresh(NoInput)} : \E n \in { resourceTencentCloudMariadbSecurityGroupsDeleteBegin(s) } :
            Start("mariadb", "Delete", NoInput, n)
    \/ /\ Running("mariadb", "Delete")
       /\ \E out \in Outcomes(pc, remote) :
            \E s \in {S} : \E n \in { resourceTencentCloudMariadbSecurityGroupsDeleteStep(s, out) } :
                Continue("Delete", out, n)

resourceTencentCloudVpnGatewayCreate ==
    \/ /\ ~Tracked /\ rtype = "vpn" /\ pc = "idle"
       /\ \E s \in {Fresh(NoInput)} : \E n \in { resourceTencentCloudVpnGatewayCreateBegin(s) } :
            Start("vpn", "Create", NoInput, n)
    \/ /\ Running("vpn", "Create")
       /\ \E out \in Outcomes(pc, remote) :
            \E s \in {S} : \E n \in { resourceTencentCloudVpnGatewayCreateStep(s, out) } :
                Continue("Create", out, n)

resourceTencentCloudVpnGatewayRead ==
    \/ /\ Tracked /\ rtype = "vpn" /\ pc = "idle"
       /\ \E s \in {Fresh(NoInput)} : \E n \in { resourceTencentCloudVpnGatewayReadBegin(s) } :
            Start("vpn", "Read", NoInput, n)
    \/ /\ Running("vpn", "Read")
       /\ \E out \in Outcomes(pc, remote) :
            \E s \in {S} : \E n \in { resourceTencentCloudVpnGatewayReadStep(s, out) } :
                Continue("Read", out, n)

resourceTencentCloudVpnGatewayUpdate ==
    \/ /\ Tracked /\ rtype = "vpn" /\ pc = "idle"
       /\ \E inp \in UpdateInputs("vpn", attrs, MaxChanged - changed) :
            \E s \in {Fresh(inp)} : \E n \in { resourceTencentCloudVpnGatewayUpdateBegin(s) } :
                Start("vpn", "Update", inp, n)
    \/ /\ Running("vpn", "Update")
       /\ \E out \in Outcomes(pc, remote) :
            \E s \in {S} : \E n \in { resourceTencentCloudVpnGatewayUpdateStep(s, out) } :
                Continue("Update", out, n)

resourceTencentCloudVpnGatewayDelete ==
    \/ /\ Tracked /\ rtype = "vpn" /\ pc = "idle"
       /\ \E s \in {Fresh(NoInput)} : \E n \in { resourceTencentCloudVpnGatewayDeleteBegin(s) } :
            Start("vpn", "Delete", NoInput, n)
    \/ /\ Running("vpn", "Delete")
       /\ \E out \in Outcomes(pc, remote) :
            \E s \in {S} : \E n \in { resourceTencentCloudVpnGatewayDeleteStep(s, out) } :
                Continue("Delete", out, n)

resourceTencentCloudEipCreate ==
    \/ /\ ~Tracked /\ rtype = "eip" /\ pc = "idle"
       /\ \E s \in {Fresh(NoInput)} : \E n \in { resourceTencentCloudEipCreateBegin(s) } :
            Start("eip", "Create", NoInput, n)
    \/ /\ Running("eip", "Create")
       /\ \E out \in Outcomes(pc, remote) :
            \E s \in {S} : \E n \in { resourceTencentCloudEipCreateStep(s, out) } :
                Continue("Create", out, n)

resourceTencentCloudEipRead ==
    \/ /\ Tracked /\ rtype = "eip" /\ pc = "idle"
       /\ \E s \in {Fresh(NoInput)} : \E n \in { resourceTencentCloudEipReadBegin(s) } :
            Start("eip", "Read", NoInput, n)
    \/ /\ Running("eip", "Read")
       /\ \E out \in Outcomes(pc, remote) :
            \E s \in {S} : \E n \in { resourceTencentCloudEipReadStep(s, out) } :
                Continue("Read", out, n)

resourceTencentCloudEipUpdate ==
    \/ /\ Tracked /\ rtype = "eip" /\ pc = "idle"
       /\ \E inp \in UpdateInputs("eip", attrs, MaxChanged - changed) :
            \E s \in {Fresh(inp)} : \E n \in { resourceTencentCloudEipUpdateBegin(s) } :
                Start("eip", "Update", inp, n)
    \/ /\ Running("eip", "Update")
       /\ \E out \in Outcomes(pc, remote) :
            \E s \in {S} : \E n \in { resourceTencentCloudEipUpdateStep(s, out) } :
                Continue("Update", out, n)

resourceTencentCloudEipDelete ==
    \/ /\ Tracked /\ rtype = "eip" /\ pc = "idle"
       /\ \E s \in {Fresh(NoInput)} : \E n \in { resourceTencentCloudEipDeleteBegin(s) } :
            Start("eip", "Delete", NoInput, n)
    \/ /\ Running("eip", "Delete")
       /\ \E out \in Outcomes(pc, remote) :
            \E s \in {S} : \E n \in { resourceTencentCloudEipDeleteStep(s, out) } :
                Continue("Delete", out, n)

resourceTencentCloudTsfApplicationConfigCreate ==
    \/ /\ ~Tracked /\ rtype = "tsf" /\ pc = "idle"
       /\ \E s \in {Fresh(NoInput)} : \E n \in { resourceTencentCloudTsfApplicationConfigCreateBegin(s) } :
            Start("tsf", "Create", NoInput, n)
    \/ /\ Running("tsf", "Create")
       /\ \E out \in Outcomes(pc, remote) :
            \E s \in {S} : \E n \in { resourceTencentCloudTsfApplicationConfigCreateStep(s, out) } :
                Continue("Create", out, n)

resourceTencentCloudTsfApplicationConfigRead ==
    \/ /\ Tracked /\ rtype = "tsf" /\ pc = "idle"
       /\ \E s \in {Fresh(NoInput)} : \E n \in { resourceTencentCloudTsfApplicationConfigReadBegin(s) } :
            Start("tsf", "Read", NoInput, n)
    \/ /\ Running("tsf", "Read")
       /\ \E out \in Outcomes(pc, remote) :
            \E s \in {S} : \E n \in { resourceTencentCloudTsfApplicationConfigReadStep(s, out) } :
                Continue("Read", out, n)

resourceTencentCloudTsfApplicationConfigUpdate ==
    \/ /\ Tracked /\ rtype = "tsf" /\ pc = "idle"
       /\ \E inp \in UpdateInputs("tsf", attrs, MaxChanged - changed) :
            \E s \in {Fresh(inp)} : \E n \in { resourceTencentCloudTsfApplicationConfigUpdateBegin(s) } :
                Start("tsf", "Update", inp, n)
    \/ /\ Running("tsf", "Update")
       /\ \E out \in Outcomes(pc, remote) :
            \E s \in {S} : \E n \in { resourceTencentCloudTsfApplicationConfigUpdateStep(s, out) } :
                Continue("Update", out, n)

resourceTencentCloudTsfApplicationConfigDelete ==
    \/ /\ Tracked /\ rtype = "tsf" /\ pc = "idle"
       /\ \E s \in {Fresh(NoInput)} : \E n \in { resourceTencentCloudTsfApplicationConfigDeleteBegin(s) } :
            Start("tsf", "Delete", NoInput, n)
    \/ /\ Running("tsf", "Delete")
       /\ \E out \in Outcomes(pc, remote) :
            \E s \in {S} : \E n \in { resourceTencentCloudTsfApplicationConfigDeleteStep(s, out) } :
                Continue("Delete", out, n)

dataSourceTencentCloudServiceTemplatesRead ==
    \/ /\ rtype = "svc_tpl" /\ pc = "idle"
       /\ \E s \in {Fresh(NoInput)} : \E n \in { dataSourceTencentCloudServiceTemplatesReadBegin(s) } :
            Start("svc_tpl", "Read", NoInput, n)
    \/ /\ Running("svc_tpl", "Read")
       /\ \E out \in Outcomes(pc, remote) :
            \E s \in {S} : \E n \in { dataSourceTencentCloudServiceTemplatesReadStep(s, out) } :
                Continue("Read", out, n)

dataSourceTencentCloudDbbrainSecurityAuditLogExportTasksRead ==
    \/ /\ rtype = "dbbrain" /\ pc = "idle"
       /\ \E s \in {Fresh(NoInput)} : \E n \in { dataSourceTencentCloudDbbrainSecurityAuditLogExportTasksReadBegin(s) } :
            Start("dbbrain", "Read", NoInput, n)
    \/ /\ Running("dbbrain", "Read")
       /\ \E out \in Outcomes(pc, remote) :
            \E s \in {S} : \E n \in { dataSourceTencentCloudDbbrainSecurityAuditLogExportTasksReadStep(s, out) } :
                Continue("Read", out, n)

-----------------------------------------------------------------------------
(* The engine records what the handler returned and is ready for the next *)
(* call                                                                    *)
Settle ==
    /\ pc = "returned"
    /\ pc' = "idle"
    /\ op' = "none"
    /\ gone' = FALSE
    /\ input' = NoInput
    /\ calls' = << >>
    /\ last' = NoCall
    /\ result' = NoResult
    /\ populated' = {}
    /\ made' = 0
    /\ mon' = IF mon.k = 4 THEN NoMon ELSE mon
    /\ UNCHANGED << rtype, config, id, attrs, old, changed, remote, attempts,
                    partial >>

-----------------------------------------------------------------------------
(* The vendor's side *)

\* the vendor finishes an asynchronous creation or deletion
RemoteProgress ==
    /\ pc # "returned"
    /\ remote.st \in {"creating", "deleting"}
    /\ remote' = IF remote.st = "creating"
                 THEN [remote EXCEPT !.st = "available"]
                 ELSE [remote EXCEPT !.st = "absent"]
    /\ UNCHANGED << rtype, config, id, attrs, old, input, changed, op, gone,
                    pc, attempts, calls, last, result, populated, partial,
                    made, mon >>

\* the object is deleted behind the provider's back (what Read's
\* "not found, please check if it has been deleted" is for)
OutOfBandDelete ==
    /\ pc = "idle"
    /\ remote.st = "available"
    /\ remote' = [remote EXCEPT !.st = "absent"]
    /\ mon' = NoMon
    /\ UNCHANGED << rtype, config, id, attrs, old, input, changed, op, gone,
                    pc, attempts, calls, last, result, populated, partial,
                    made >>

-----------------------------------------------------------------------------
(* Specification *)

Init ==
    /\ rtype \in RTypes \cup DTypes
    /\ config \in Configs(rtype)
    /\ id = EmptyId
    /\ attrs = config
    /\ old = config
    /\ input = NoInput
    /\ changed = 0
    /\ remote \in { AbsentRemote(rtype, p) :
                      p \in (IF rtype = "mariadb" THEN {{}, {"sg9"}} ELSE {{}}) }
    /\ op = "none"
    /\ gone = FALSE
    /\ pc = "idle"
    /\ attempts = 0
    /\ calls = << >>
    /\ last = NoCall
    /\ result = NoResult
    /\ populated = {}
    /\ partial = NoPartial
    /\ made = 0
    /\ mon = NoMon

Next ==
    \/ resourceTencentCloudCfsSnapshotCreate
    \/ resourceTencentCloudCfsSnapshotRead
    \/ resourceTencentCloudCfsSnapshotUpdate
    \/ resourceTencentCloudCfsSnapshotDelete
    \/ resourceTencentCloudMariadbSecurityGroupsCreate
    \/ resourceTencentCloudMariadbSecurityGroupsRead
    \/ resourceTencentCloudMariadbSecurityGroupsUpdate
    \/ resourceTencentCloudMariadbSecurityGroupsDelete
    \/ resourceTencentCloudVpnGatewayCreate
    \/ resourceTencentCloudVpnGatewayRead
    \/ resourceTencentCloudVpnGatewayUpdate
    \/ resourceTencentCloudVpnGatewayDelete
    \/ resourceTencentCloudEipCreate
    \/ resourceTencentCloudEipRead
    \/ resourceTencentCloudEipUpdate
    \/ resourceTencentCloudEipDelete
    \/ resourceTencentCloudTsfApplicationConfigCreate
    \/ resourceTencentCloudTsfApplicationConfigRead
    \/ resourceTencentCloudTsfApplicationConfigUpdate
    \/ resourceTencentCloudTsfApplicationConfigDelete
    \/ dataSourceTencentCloudServiceTemplatesRead
    \/ dataSourceTencentCloudDbbrainSecurityAuditLogExportTasksRead
    \/ Settle
    \/ RemoteProgress
    \/ OutOfBandDelete

Spec == Init /\ [][Next]_vars

\* a called handler keeps running: its goroutine is never suspended forever
InFlight == pc \notin {"idle", "returned"}

Handlers ==
    \/ resourceTencentCloudCfsSnapshotCreate
    \/ resourceTencentCloudCfsSnapshotRead
    \/ resourceTencentCloudCfsSnapshotUpdate
    \/ resourceTencentCloudCfsSnapshotDelete
    \/ resourceTencentCloudMariadbSecurityGroupsCreate
    \/ resourceTencentCloudMariadbSecurityGroupsRead
    \/ resourceTencentCloudMariadbSecurityGroupsUpdate
    \/ resourceTencentCloudMariadbSecurityGroupsDelete
    \/ resourceTencentCloudVpnGatewayCreate
    \/ resourceTencentCloudVpnGatewayRead
    \/ resourceTencentCloudVpnGatewayUpdate
    \/ resourceTencentCloudVpnGatewayDelete
    \/ resourceTencentCloudEipCreate
    \/ resourceTencentCloudEipRead
    \/ resourceTencentCloudEipUpdate
    \/ resourceTencentCloudEipDelete
    \/ resourceTencentCloudTsfApplicationConfigCreate
    \/ resourceTencentCloudTsfApplicationConfigRead
    \/ resourceTencentCloudTsfApplicationConfigUpdate
    \/ resourceTencentCloudTsfApplicationConfigDelete
    \/ dataSourceTencentCloudServiceTemplatesRead
    \/ dataSourceTencentCloudDbbrainSecurityAuditLogExportTasksRead

FairSpec == Spec /\ WF_vars(InFlight /\ Handlers)

-----------------------------------------------------------------------------
(* Properties *)

Returned(o) == pc = "returned" /\ op = o

Range(q) == { q[i] : i \in 1..Len(q) }

\* the describe call Read starts with
ReadDescribeSites ==
    {"read:DescribeCfsSnapshotById", "read:DescribeMariadbSecurityGroup",
     "read:DescribeTsfApplicationConfigById", "read:DescribeEipById",
     "read:DescribeVpngwById"}

\* the describe call of a wait for a status
StatusPollSites ==
    {"poll:DescribeCfsSnapshotById", "poll:DescribeEipById",
     "poll:DescribeVpnGateways"}

\* the call that deletes
DeleteSites ==
    {"DeleteCfsSnapshotById", "DeleteMariadbSecurityGroupsById",
     "DeleteTsfApplicationConfigById", "DeleteEip", "DeleteVpnGateway"}

\* Read's describe call answered and there was no object
ReadFoundNothing ==
    /\ Returned("Read")
    /\ rtype \in RTypes
    /\ last.site \in ReadDescribeSites
    /\ last.kind = "ok"
    /\ ~Exists(remote)

\* C1: for every resource type, a Read that finds no remote object for the
\* local identifier sets the identifier to empty and returns without error.
\* (Refuted: the Read of mariadb security groups clears the identifier and
\* returns an error.)
ReadOfAbsentClearsIdWithoutError ==
    ReadFoundNothing => id = EmptyId /\ result.status = "ok"

\* the attributes whose change Update answers with "do not support change"
Unsupported(t) ==
    CASE t = "mariadb" -> MariadbSchema
      [] t = "tsf" -> Range(TsfImmutableArgs)
      [] t = "vpn" -> Range(VpnUnsupportedUpdateFields) \cup {"cdc_id", "max_connection"}
      [] t = "eip" -> {"bandwidth_package_id"}
      [] OTHER -> {}

\* C2: for every resource type, an Update in which an attribute that does
\* not support change has changed returns an error and issues no vendor
\* call, whatever else changed in the same Update.  (Refuted: the VPN
\* gateway's Update checks cdc_id and max_connection after its modify
\* calls.)
ImmutableChangeFailsWithoutCall ==
    (op = "Update" /\ DOMAIN input \cap Unsupported(rtype) # {})
        => (pc = "returned" /\ result.status = "error" /\ calls = << >>)

\* C3: for every resource type, Delete of a resource whose remote object is
\* already absent returns success, unless a call fails for a reason of its
\* own (a fatal or transient vendor error, a timeout, a local identifier
\* that cannot be split).  (Refuted: the VPN gateway's Delete returns the
\* VPCNotFound answer of its first describe call as its error.)
DeleteOfAbsentSucceeds ==
    (Returned("Delete") /\ gone
        /\ result.err \notin {"fatal", "transient", "timeout", "id is broken"})
        => result.status = "ok"

\* C4: for every resource type and valid configuration, Create, Read,
\* Update with no changed attribute, Read leaves the local attributes after
\* the second Read as they were after the first, and the remote object as
\* it was.
RoundTripStable ==
    /\ mon.k = 4 => attrs = mon.attrs
    /\ (/\ mon.k \in {2, 3, 4}
        /\ \/ op \in {"none", "Read"}
           \/ op = "Update" /\ input = NoInput)
          => Object(remote) = mon.remote

\* the second Read of the sequence has returned, after an Update that
\* issued a vendor call
RoundTripDone == mon.k = 4 /\ Returned("Read") /\ rtype = "mariadb"

\* C5: for every resource type, after a successful Create every attribute
\* of the schema has been written by Read from the remote object.
\* (Refuted: the Read of the tsf application config never writes
\* encode_with_base64 and program_id_list.)
CreatePopulatesEveryAttribute ==
    (Returned("Create") /\ rtype \in RTypes /\ result.status = "ok")
        => populated = Schema(rtype)

\* C6: in the Create of a resource with tags, when the tag call fails after
\* the create call succeeded, Create returns that error, the local
\* identifier is the one the vendor assigned and the remote object exists.
TagFailureKeepsIdentifier ==
    (op = "Create" /\ last.site = "ModifyTags" /\ last.kind # "ok")
        => /\ pc = "returned"
           /\ result.status = "error"
           /\ result.err = last.kind
           /\ id # EmptyId
           /\ id = VendorId
           /\ Exists(remote)

TagFailureInCreate ==
    /\ Returned("Create")
    /\ result.status = "error"
    /\ result.at = "ModifyTags"
    /\ "ModifyTags" \in Range(calls)

\* C7: for every resource type, Delete returns success only after a
\* describe call, issued after the delete call, has observed the remote
\* object absent.  (Refuted: the Deletes of mariadb security groups and of
\* the tsf application config return right after the delete call.)
DeleteConfirmsAbsence ==
    (Returned("Delete") /\ result.status = "ok")
        => /\ Len(calls) >= 2
           /\ calls[Len(calls)] \in StatusPollSites
           /\ \E i \in 1..(Len(calls) - 1) : calls[i] \in DeleteSites
           /\ last.kind \in {"ok", "notfound"}
           /\ ~Exists(remote)

\* C8: in every Create the steps come in the order create call, identifier
\* set, status poll to its end, tag assignment, Read: no tag call before
\* the poll has finished, and nothing after a step that failed.  (Refuted:
\* the EIP's Create assigns the tags before it polls the status.)
CreateStepsInOrder ==
    op = "Create" =>
        /\ pc \in StatusPollSites => "ModifyTags" \notin Range(calls)
        /\ \A i, j \in 1..Len(calls) :
              i < j => ~(calls[i] = "ModifyTags" /\ calls[j] \in StatusPollSites)
        /\ pc \in StatusPollSites \cup {"ModifyTags"} \cup ReadDescribeSites
              => id # EmptyId
        /\ last.kind = "fatal" => pc = "returned" /\ result.status = "error"

\* C9: in every operation, once a vendor call has returned a terminal error
\* the operation returns that error without issuing the call again.
\* (Refuted: the service templates data source answers any error of its
\* first DescribeServiceTemplates call with a retry loop around the same
\* call.)
TerminalErrorReturned ==
    last.kind = "fatal"
        => pc = "returned" /\ result.status = "error" /\ result.err = "fatal"

\* the outcomes after which a loop tries again
RetryableAt(site, kind) ==
    \/ kind = "transient"
    \/ kind = "busy" /\ site \in {"UnattachEip", "DeleteEip"}
    \/ kind = "internal" /\ site = "poll:DescribeCfsSnapshotById"
    \/ kind = "ok" /\ site \in StatusPollSites \cup {"AllocateAddresses"}

RepeatsOnlyWhileRetryable ==
    attempts' > attempts
        => /\ pc' = pc
           /\ last'.site = pc
           /\ RetryableAt(pc, last'.kind)
           /\ attempts' < doubleReadRetryBudget

Phase ==
    IF rtype \notin RTypes THEN "none"
    ELSE IF InFlight /\ op = "Create" THEN "creating"
    ELSE IF InFlight /\ op = "Update" THEN "updating"
    ELSE IF InFlight /\ op = "Delete" THEN "deleting"
    ELSE IF pc = "returned" /\ result.status = "error" /\ op # "Read" THEN "failed"
    ELSE IF id = EmptyId THEN "absent"
    ELSE "available"

\* the moves of the lifecycle; a handler that returns an error before its
\* first vendor call passes through its step at once, and a Read (on its
\* own or at the end of Update) that finds the object deleted behind the
\* provider's back takes the instance to absent
LifecycleStep ==
    \/ Phase' = Phase
    \/ Phase = "absent" /\ Phase' = "creating"
    \/ Phase = "creating" /\ Phase' = "available" /\ result'.status = "ok"
    \/ Phase = "available" /\ Phase' = "updating"
    \/ Phase = "updating" /\ Phase' = "available" /\ result'.status = "ok"
    \/ Phase = "available" /\ Phase' = "deleting"
    \/ Phase = "deleting" /\ Phase' = "absent" /\ result'.status = "ok"
    \/ /\ Phase' = "failed"
       /\ result'.err # ""
       /\ \/ Phase \in {"creating", "updating", "deleting"}
          \/ Phase = "absent" /\ op' = "Create" /\ calls' = << >>
          \/ Phase = "available" /\ op' \in {"Update", "Delete"} /\ calls' = << >>
    \/ Phase = "failed" /\ Phase' \in {"absent", "available"} /\ pc' = "idle"
    \/ /\ Phase \in {"available", "updating"} /\ Phase' = "absent"
       /\ op' \in {"Read", "Update"}
       /\ last'.site \in ReadDescribeSites /\ ~Exists(remote')

\* Create has returned success: a describe call has answered after the
\* create call and the remote object is in its available state
CreateSawAvailable ==
    (Returned("Create") /\ rtype \in RTypes /\ result.status = "ok")
        => /\ id # EmptyId
           /\ remote.st = "available"
           /\ last.kind = "ok"
           /\ last.site \in ReadDescribeSites \cup {"read:DescribeResourceTags",
                                "read:DescribeVpcBandwidthPackageByEip"}
           /\ Range(calls) \cap (StatusPollSites \cup ReadDescribeSites) # {}

OtherInstancesKept == remote'.peers = remote.peers

\* C12: reconciliations of two different instances do not interfere: an
\* operation on one instance never changes the remote object of another.
\* (Refuted: the Update of mariadb security groups sends
\* ModifyDBInstanceSecurityGroups with SecurityGroupIds holding its own
\* group alone, which takes the other instances' groups off the database
\* instance.)
InstancesDoNotInterfere == [][OtherInstancesKept]_vars

\* C13: Delete of a VPN gateway whose charge type is PREPAID never issues
\* the DeleteVpnGateway call.  (Refuted: Delete stops only while the
\* gateway's expiry time lies in the future; for a prepaid gateway that has
\* expired, or whose expiry time is the zero time, it goes on to
\* DeleteVpnGateway.)
PrepaidVpnNeverDeleted ==
    (/\ rtype = "vpn" /\ op = "Delete" /\ ~gone
     /\ attrs["charge_type"] = VPN_CHARGE_TYPE_PREPAID
     /\ remote.attrs["charge_type"] = VPN_CHARGE_TYPE_PREPAID)
        => pc # "DeleteVpnGateway" /\ "DeleteVpnGateway" \notin Range(calls)

\* the configuration asks for what Create refuses: no vpc_id for a gateway
\* that is not of type CCN, or a vpc_id for one that is
VpnConfigRefused ==
    IF config["type"] = GATE_WAY_TYPE_CCN THEN config["vpc_id"] # ""
    ELSE config["vpc_id"] = ""

\* C14: Create of a VPN gateway fails before any vendor call when the type
\* is not CCN (or unset) and vpc_id is absent, and when the type is CCN and
\* vpc_id is present; in every other case the CreateVpnGateway request
\* carries the configured vpc_id (empty for CCN).
VpnCreateChecksVpcId ==
    (rtype = "vpn" /\ op = "Create") =>
        /\ VpnConfigRefused =>
              /\ pc = "returned" /\ result.status = "error"
              /\ result.err \in {"vpc_id is required", "vpc_id doesn't make sense"}
              /\ calls = << >> /\ ~Exists(remote)
        /\ ~VpnConfigRefused =>
              /\ result.err \notin {"vpc_id is required", "vpc_id doesn't make sense"}
              /\ Exists(remote) =>
                    remote.attrs["vpc_id"] =
                        (IF config["type"] = GATE_WAY_TYPE_CCN THEN ""
                         ELSE config["vpc_id"])

\* Create refused a vpc_id for a gateway of type CCN
VpnCreateRefusedCcn ==
    /\ Returned("Create") /\ rtype = "vpn"
    /\ result.err = "vpc_id doesn't make sense"

\* the running Update asks for charge_type PREPAID (from POSTPAID_BY_HOUR:
\* an Update's input differs from the value held)
VpnUpdateToPrepaid ==
    /\ rtype = "vpn" /\ op = "Update"
    /\ "charge_type" \in DOMAIN input
    /\ input["charge_type"] = VPN_CHARGE_TYPE_PREPAID

\* an Update to PREPAID never reaches ModifyVpnGatewayAttribute and ends
\* with an error
VpnUpdateToPrepaidRefused ==
    VpnUpdateToPrepaid =>
        /\ pc # "ModifyVpnGatewayAttribute"
        /\ "ModifyVpnGatewayAttribute" \notin Range(calls)
        /\ pc = "returned" => result.status = "error"

\* the vendor's charge type changes in an Update only through
\* ModifyVpnGatewayAttribute, from PREPAID to the POSTPAID_BY_HOUR asked for
VpnChargeTypeSentOneWay ==
    (/\ rtype = "vpn" /\ op' = "Update"
     /\ remote'.attrs["charge_type"] # remote.attrs["charge_type"])
        => /\ pc = "ModifyVpnGatewayAttribute"
           /\ old["charge_type"] = VPN_CHARGE_TYPE_PREPAID
           /\ input["charge_type"] = VPN_CHARGE_TYPE_POSTPAID_BY_HOUR
           /\ remote'.attrs["charge_type"] = VPN_CHARGE_TYPE_POSTPAID_BY_HOUR

\* C15: in the VPN gateway's Update the only charge_type change ever sent to
\* the vendor is PREPAID to POSTPAID_BY_HOUR; an Update from
\* POSTPAID_BY_HOUR to PREPAID returns an error and does not issue
\* ModifyVpnGatewayAttribute.
VpnChargeTypeOnlyToPostpaid ==
    /\ []VpnUpdateToPrepaidRefused
    /\ [][VpnChargeTypeSentOneWay]_vars

\* an Update to PREPAID was refused at the charge type check
VpnToPrepaidRefused ==
    /\ Returned("Update") /\ VpnUpdateToPrepaid
    /\ result.err = "Invalid charge type change"

\* an Update to POSTPAID_BY_HOUR was sent and took effect
VpnToPostpaidSent ==
    /\ rtype = "vpn" /\ op = "Update"
    /\ "ModifyVpnGatewayAttribute" \in Range(calls)
    /\ "charge_type" \in DOMAIN input
    /\ remote.attrs["charge_type"] = VPN_CHARGE_TYPE_POSTPAID_BY_HOUR

\* C16: for mariadb security groups the composite identifier written by
\* Create is split by Read, Update and Delete back into exactly the three
\* values it was made of, for every choice of the three values.  (Refuted:
\* a value that contains the separator, security_group_id "sg#x", makes
\* strings.Split return four pieces, which Read, Update and Delete answer
\* with "id is broken".)
CompositeIdSplitsBack ==
    (rtype = "mariadb" /\ id # EmptyId) =>
        LET p == idSplit(S)
        IN  /\ Len(p) = 3
            /\ p[1] = Chars(config["instance_id"])
            /\ p[2] = Chars(config["security_group_id"])
            /\ p[3] = Chars(config["product"])

\* C17: after every successful Read of a data source the data source's
\* identifier is set to a non-empty value, including when the query returns
\* no item.  (Refuted: the Read of the dbbrain export tasks calls d.SetId
\* only when the task list it got is not nil.)
DataSourceReadSetsId ==
    (Returned("Read") /\ rtype \in DTypes /\ result.status = "ok")
        => id # EmptyId

\* the modify call that carries attribute a of a resource of type t
ModifySite(t, a) ==
    CASE a = "tags" -> "ModifyTags"
      [] t = "cfs" /\ a = "snapshot_name" -> "UpdateCfsSnapshotAttribute"
      [] t = "vpn" /\ a \in {"name", "charge_type"} -> "ModifyVpnGatewayAttribute"
      [] t = "vpn" /\ a = "prepaid_renew_flag" -> "SetVpnGatewaysRenewFlag"
      [] t = "vpn" /\ a = "bandwidth" -> "ResetVpnGatewayInternetMaxBandwidth"
      [] t = "eip" /\ a = "name" -> "ModifyEipName"
      [] t = "eip" /\ a = "internet_max_bandwidth_out" -> "ModifyEipBandwidthOut"
      [] OTHER -> "none"

\* C18: for every resource type, an Update that returns success has issued,
\* for each changed attribute that supports change, the corresponding
\* modify call, including when the new value is the empty or zero value.
\* (Refuted: the EIP's Update sends internet_max_bandwidth_out only under
\* d.GetOk, so a change to the zero value issues no call.)
UpdateSendsEveryChange ==
    (Returned("Update") /\ rtype \in RTypes /\ result.status = "ok" /\ ~gone)
        => \A a \in DOMAIN input \ Unsupported(rtype) :
              ModifySite(rtype, a) \in Range(calls)

\* Delete goes on to DeleteVpnGateway only from a DescribeVpnConnections
\* call that answered with no connection
VpnDeleteAfterNoConnection ==
    (rtype = "vpn" /\ pc' = "DeleteVpnGateway" /\ pc # "DeleteVpnGateway")
        => /\ pc = "DescribeVpnConnections"
           /\ last' = [site |-> "DescribeVpnConnections", kind |-> "ok",
                       x |-> "none", ccn |-> FALSE]

\* a DescribeVpnConnections call that answers with a connection ends Delete
\* at once, with an error, and leaves the gateway as it is
VpnDeleteStopsAtConnection ==
    (/\ rtype = "vpn" /\ pc = "DescribeVpnConnections"
     /\ last'.site = "DescribeVpnConnections" /\ last'.kind = "ok"
     /\ last'.x = "some")
        => /\ pc' = "returned"
           /\ result'.status = "error"
           /\ result'.err = "associated tunnel exists"
           /\ "DeleteVpnGateway" \notin Range(calls')
           /\ remote' = remote
           /\ id' = id

\* C19: the VPN gateway's Delete issues DeleteVpnGateway only if the
\* DescribeVpnConnections query made just before it returned no connection;
\* when a connection is associated, Delete returns an error without
\* retrying and the gateway is not deleted.
VpnDeleteRespectsConnections ==
    /\ [][VpnDeleteAfterNoConnection]_vars
    /\ [][VpnDeleteStopsAtConnection]_vars

\* Delete has stopped at an associated connection
VpnDeleteStoppedAtConnection ==
    /\ Returned("Delete") /\ rtype = "vpn"
    /\ last.site = "DescribeVpnConnections" /\ last.x = "some"
    /\ Exists(remote)

\* the pre-delete describe has just answered for a gateway of type CCN with
\* a NetworkInstanceId
VpnSeenAttachedToCcn ==
    /\ rtype = "vpn" /\ op = "Delete"
    /\ last.site = "pre:DescribeVpnGateways" /\ last.kind = "ok" /\ last.ccn
    /\ remote.attrs["type"] = GATE_WAY_TYPE_CCN

\* that answer ends Delete with a non-retryable error, before any call that
\* follows the describe
VpnAttachedToCcnRefused ==
    VpnSeenAttachedToCcn =>
        /\ pc = "returned"
        /\ result.status = "error"
        /\ result.err = "Delete operation is unsupported"
        /\ calls = <<"pre:DescribeVpnGateways">>
        /\ Exists(remote)

\* Delete leaves its pre-delete describe for the next call only on an
\* answer that shows no attachment to a CCN instance
VpnDeleteGoesOnUnattached ==
    (rtype = "vpn" /\ pc = "pre:DescribeVpnGateways"
        /\ pc' \notin {"pre:DescribeVpnGateways", "returned"})
        => /\ pc' = "DescribeVpnConnections"
           /\ last'.kind = "ok"
           /\ ~(remote.attrs["type"] = GATE_WAY_TYPE_CCN /\ last'.ccn)

\* C20: the VPN gateway's Delete never issues DeleteVpnGateway for a gateway
\* of type CCN that is attached to a CCN instance: the pre-delete describe
\* returns a non-retryable error and Delete ends with it.
VpnAttachedToCcnNeverDeleted ==
    /\ []VpnAttachedToCcnRefused
    /\ [][VpnDeleteGoesOnUnattached]_vars

\* Delete of a gateway attached to a CCN instance has been refused
VpnDeleteRefusedForCcn ==
    /\ Returned("Delete") /\ VpnSeenAttachedToCcn

\* the running Update has reached the SetVpnGatewaysRenewFlag call
VpnRenewFlagIssued ==
    /\ rtype = "vpn" /\ op = "Update"
    /\ \/ pc = "SetVpnGatewaysRenewFlag"
       \/ "SetVpnGatewaysRenewFlag" \in Range(calls)

\* the running Update changes prepaid_renew_flag
VpnRenewFlagChanged ==
    /\ rtype = "vpn" /\ op = "Update"
    /\ "prepaid_renew_flag" \in DOMAIN input

\* C21: in the VPN gateway's Update SetVpnGatewaysRenewFlag is issued only
\* when prepaid_renew_flag changed and the gateway's charge type is PREPAID;
\* a prepaid_renew_flag change on a gateway that is not PREPAID returns an
\* error without issuing the call.
VpnRenewFlagOnlyForPrepaid ==
    /\ VpnRenewFlagIssued =>
          /\ VpnRenewFlagChanged
          /\ old["charge_type"] = VPN_CHARGE_TYPE_PREPAID
    /\ (VpnRenewFlagChanged /\ old["charge_type"] # VPN_CHARGE_TYPE_PREPAID) =>
          /\ ~VpnRenewFlagIssued
          /\ pc = "returned" => result.status = "error"

\* the same with the charge type the configuration asks for, which is what
\* d.Get("charge_type") yields in Update
VpnRenewFlagOnlyForConfiguredPrepaid ==
    /\ VpnRenewFlagIssued =>
          /\ VpnRenewFlagChanged
          /\ attrs["charge_type"] = VPN_CHARGE_TYPE_PREPAID \/ pc = "returned"
    /\ (/\ VpnRenewFlagChanged
        /\ "charge_type" \notin DOMAIN input
        /\ old["charge_type"] # VPN_CHARGE_TYPE_PREPAID) =>
          /\ ~VpnRenewFlagIssued
          /\ pc = "returned" => result.status = "error"

\* a renew flag change on a gateway held as POSTPAID_BY_HOUR was refused
VpnRenewFlagRefused ==
    /\ Returned("Update") /\ VpnRenewFlagChanged
    /\ result.err = "Invalid renew flag change"

\* the identifier held for a mariadb association does not split into
\* exactly three parts
MariadbIdBroken ==
    /\ rtype = "mariadb" /\ Tracked
    /\ Len(Split(id, FILED_SP)) # 3

\* the engine calls Read, Update or Delete with such an identifier: the
\* handler returns at once, with the identifier and the vendor's objects as
\* they were and the attributes as the engine handed them over
BrokenIdReturn ==
    (MariadbIdBroken /\ pc = "idle" /\ op' \in {"Read", "Update", "Delete"})
        => /\ pc' = "returned"
           /\ result'.status = "error" /\ result'.err = "id is broken"
           /\ calls' = << >> /\ last' = NoCall
           /\ remote' = remote
           /\ id' = id
           /\ attrs' = Over(attrs, input')

EipDeleteSteps == << "UnattachEip", "DeleteEip", "poll:DescribeEipById" >>

IsPrefix(p, q) == Len(p) <= Len(q) /\ SubSeq(q, 1, Len(p)) = p

\* the calls issued so far by the EIP's Delete are an initial part of
\* UnattachEip, DeleteEip, describe poll, and the call it stands at is the
\* last of them (a repetition) or the one after them
EipDeleteCallsInOrder ==
    (rtype = "eip" /\ op = "Delete") =>
        /\ IsPrefix(calls, EipDeleteSteps)
        /\ pc # "returned" =>
              \/ calls # << >> /\ pc = calls[Len(calls)]
              \/ Len(calls) < 3 /\ pc = EipDeleteSteps[Len(calls) + 1]
        /\ (pc = "returned" /\ Len(calls) < 3) =>
              /\ result.status = "error"
              /\ result.at = calls[Len(calls)]

\* Delete moves on from UnattachEip and from DeleteEip only on success,
\* and to the next call; an error of either ends Delete, and an error of
\* UnattachEip leaves the address as it was
EipDeleteAdvance ==
    (rtype = "eip" /\ op' = "Delete" /\ pc # pc') =>
        \/ pc = "idle" /\ pc' = "UnattachEip"
        \/ /\ pc = "UnattachEip" /\ pc' = "DeleteEip"
           /\ last'.kind = "ok" /\ remote' = remote
        \/ /\ pc = "DeleteEip" /\ pc' = "poll:DescribeEipById"
           /\ last'.kind = "ok" /\ remote' = VendorDelete("eip", remote)
        \/ /\ pc \in {"UnattachEip", "DeleteEip"} /\ pc' = "returned"
           /\ last'.kind # "ok"
           /\ result'.status = "error" /\ remote' = remote
        \/ pc = "poll:DescribeEipById" /\ pc' = "returned"

\* C23: in the EIP's Delete the calls are ordered UnattachEip, DeleteEip,
\* describe poll: DeleteEip is never issued before UnattachEip has
\* succeeded, the describe poll starts only after DeleteEip has succeeded,
\* and a failure of an earlier step ends Delete with an error and skips the
\* later steps.
EipDeleteStepsInOrder ==
    /\ []EipDeleteCallsInOrder
    /\ [][EipDeleteAdvance]_vars

\* a Delete of an address went through its three calls
EipDeleteWentThrough ==
    /\ Returned("Delete") /\ rtype = "eip"
    /\ calls = EipDeleteSteps /\ result.status = "ok"

\* a Delete of an address ended at a failing UnattachEip
EipDeleteStoppedAtUnattach ==
    /\ Returned("Delete") /\ rtype = "eip"
    /\ calls = << "UnattachEip" >> /\ result.status = "error"

\* C24: a single Create leaves at most one remote object behind: repeating
\* the create call inside the retry loop (after a retryable error, or in the
\* EIP's Create after a response with an empty address set) never results
\* in two remote objects for one Create.  (Refuted: the create call is
\* repeated after a transient error as it stands, and a call whose answer
\* was lost had already made its object.)
CreateLeavesAtMostOne ==
    op = "Create" => made <= 1

\* a Create repeated its create call and got its object from the repetition
CreateRepeatedThenMade ==
    /\ op = "Create" /\ made = 1 /\ pc # "returned"
    /\ last.site \in CreateSites /\ last.kind = "ok"
    /\ attempts = 0 /\ calls # << >>

====
